---- MODULE Spec2Model ----
(***************************************************************************)
(* Resilient planning core of useragent_id: the circuit breaker            *)
(* (planner/src/circuit.rs), the plan cache (planner/src/cache.rs) and the *)
(* planner facade decompose_task (planner/src/planner.rs).                 *)
(***************************************************************************)
EXTENDS Integers, Sequences, FiniteSets, TLC

(***************************************************************************)
(* Bounds of the model.                                                    *)
(***************************************************************************)
MaxThreshold == 2
MaxResetTimeout == 2
MaxHalfOpenLimit == 1
MaxTime == 3
MaxHalfOpenCounter == 3
NumCallers == 2
MaxCalls == 2
MaxElapse == 1
MaxCapacity == 2
MaxInserts == 3
MaxAge == 1
MaxCacheTime == 1
MaxBatchSize == 2
MaxRetries == 2
MaxSubmits == 2
MaxLoads == 1
MaxRestarts == 1

None == "None"
\* Option<Instant>::None of last_failure
NoInstant == 0 - 1
Callers == 1..NumCallers

VARIABLES
    \* CircuitBreaker (circuit.rs:40-51)
    state, failure_counter, last_failure, half_open_counter,
    \* CircuitBreakerConfig (circuit.rs:20-27)
    failure_threshold, reset_timeout_ms, half_open_limit,
    \* Instant::now(), in units of reset_timeout_ms
    now,
    \* callers of CircuitProtected::execute: "idle" or "running" (awaiting f)
    pc,
    \* observation of the calls made on the breaker
    allow_result, consecutive_failures, probes_admitted, exec,
    \* environment read by decompose_task / Planner::new
    mode, enable_cache, feedback_enabled, endpoint_set,
    \* Planner.cache of the Planner built by the current decompose_task call
    cache,
    \* observation of decompose_task calls
    calls, outcome, first_ok, remote_failed_at

circuitVars == <<state, failure_counter, last_failure, half_open_counter>>
configVars == <<failure_threshold, reset_timeout_ms, half_open_limit>>
observerVars == <<allow_result, consecutive_failures, probes_admitted, exec>>
envVars == <<mode, enable_cache, feedback_enabled, endpoint_set>>
plannerVars == <<cache, calls, outcome, first_ok, remote_failed_at>>

VARIABLES
    \* observation of the errors returned by the breaker and by execute
    rejected_with, failed_with, downstream

errorVars == <<rejected_with, failed_with, downstream>>

VARIABLES
    \* observation of the calls made on a PlanCache: the result of the last
    \* get, the last call, the number of insert calls, and for each cached
    \* key the number of the insert call that last wrote it
    got, last_op, inserts, stamp

planCacheVars == <<got, last_op, inserts, stamp>>

VARIABLES
    \* FeedbackConfig (feedback.rs:14-29), batch_enabled being true
    batch_size, max_retries,
    \* FeedbackCollector (feedback.rs:44-62): the submission channel and the
    \* three shared collections
    submission_rx, pending, retry_counts, failed,
    \* the files of config.feedback_dir: file name -> content
    feedback_dir,
    \* the local `traces` of a running flush_pending_traces
    flush_traces,
    \* a running resubmit_failed: its position, its local `traces` and its
    \* success_count
    resubmit_pc, resubmit_traces, success_count,
    \* observation of the calls made on the collector and on the service
    fb_obs

feedbackConfigVars == <<batch_size, max_retries>>
collectorVars == <<submission_rx, pending, retry_counts, failed>>
resubmitVars == <<resubmit_pc, resubmit_traces, success_count>>
feedbackVars == <<feedbackConfigVars, collectorVars, feedback_dir, flush_traces,
                  resubmitVars, fb_obs>>
VARIABLES
    \* the LaVague actor (actor.rs:40-109): the senders waiting for room in
    \* the channel, the channel, and the message being handled
    send_waiters, mailbox, handling,
    \* each caller of PlannerActorSystem::decompose_task: its position and the
    \* value its oneshot receiver yields
    apc, reply,
    \* observation of the last request made by the LaVague client
    client_obs

actorVars == <<send_waiters, mailbox, handling, apc, reply, client_obs>>

VARIABLES
    \* FallbackPlanner.rules, the agent types of the capabilities that
    \* CapabilityDiscovery holds, and the observation of the last generate_plan
    rules, capabilities, generated

fallbackVars == <<rules, capabilities, generated>>

VARIABLES
    \* the subtask list handed to validate_plan and what it returned
    subtasks_in, validated

validateVars == <<subtasks_in, validated>>

VARIABLES
    \* the task running flush_pending_traces statement by statement: its
    \* position in the loop body, the locks it holds, and the I/O it performs
    flush_pc, held, io,
    \* whether the FeedbackCollector, and submission_tx with it, has been
    \* dropped, and whether process_feedback_queue has left its loop
    collector_dropped, processor_exited,
    \* observation: for each trace, the number of calls of submit_feedback
    \* made for it by flush_pending_traces that failed
    attempts

lockVars == <<flush_pc, held, io, collector_dropped, processor_exited, attempts>>

VARIABLES
    \* the arguments of a call of local_planning and what it returned
    lp_objective, lp_context, lp_result

localVars == <<lp_objective, lp_context, lp_result>>

serviceVars == <<actorVars, fallbackVars, validateVars, lockVars, localVars>>
componentVars == <<errorVars, planCacheVars, feedbackVars, serviceVars>>
vars == <<circuitVars, configVars, now, pc, observerVars, envVars, plannerVars,
          componentVars>>

(***************************************************************************)
(* Circuit breaker.                                                        *)
(***************************************************************************)
CircuitStates == {"Closed", "Open", "HalfOpen"}
AllowResults == {"Ok", "ErrOpen", "ErrHalfOpenCapacity"}

\* variant of ResetElapsed: the elapsed time is compared one unit too early
ResetElapsedOffByOne ==
    /\ last_failure # NoInstant
    /\ now - last_failure + 1 >= reset_timeout_ms

\* time.elapsed() >= Duration::from_millis(reset_timeout_ms)
ResetElapsed ==
    /\ last_failure # NoInstant
    /\ now - last_failure >= reset_timeout_ms

\* current < self.config.half_open_limit
HalfOpenAdmits(current) == current < half_open_limit

\* variant of TripsCircuit: strict comparison with the threshold
TripsCircuitStrict(failures) == failures > failure_threshold

\* failures >= self.config.failure_threshold
TripsCircuit(failures) == failures >= failure_threshold

\* CircuitBreaker::new
CircuitNew ==
    /\ state = "Closed"
    /\ failure_counter = 0
    /\ last_failure = NoInstant
    /\ half_open_counter = 0

\* CircuitBreaker::allow_request, returning result
allow_request(result) ==
    /\ CASE state = "Closed" ->
              /\ result = "Ok"
              /\ UNCHANGED <<state, half_open_counter>>
         [] state = "Open" ->
              IF ResetElapsed
              THEN /\ state' = "HalfOpen"
                   /\ half_open_counter' = 0
                   /\ result = "Ok"
              ELSE /\ result = "ErrOpen"
                   /\ UNCHANGED <<state, half_open_counter>>
         [] state = "HalfOpen" ->
              /\ half_open_counter < MaxHalfOpenCounter
              /\ half_open_counter' = half_open_counter + 1
              /\ result = IF HalfOpenAdmits(half_open_counter)
                          THEN "Ok" ELSE "ErrHalfOpenCapacity"
              /\ UNCHANGED state
    /\ UNCHANGED <<failure_counter, last_failure>>

\* variant of on_success: a half-open success does not close the circuit
on_success_no_close ==
    /\ CASE state = "Closed" ->
              /\ failure_counter' = 0
              /\ UNCHANGED state
         [] state = "HalfOpen" ->
              /\ failure_counter' = 0
              /\ UNCHANGED state
         [] state = "Open" ->
              UNCHANGED <<state, failure_counter>>
    /\ UNCHANGED <<last_failure, half_open_counter>>

\* CircuitBreaker::on_success
on_success ==
    /\ CASE state = "Closed" ->
              /\ failure_counter' = 0
              /\ UNCHANGED state
         [] state = "HalfOpen" ->
              /\ state' = "Closed"
              /\ failure_counter' = 0
         [] state = "Open" ->
              UNCHANGED <<state, failure_counter>>
    /\ UNCHANGED <<last_failure, half_open_counter>>

\* CircuitBreaker::on_failure
on_failure ==
    /\ CASE state = "Closed" ->
              /\ failure_counter' = failure_counter + 1
              /\ IF TripsCircuit(failure_counter + 1)
                 THEN /\ state' = "Open"
                      /\ last_failure' = now
                 ELSE UNCHANGED <<state, last_failure>>
         [] state = "HalfOpen" ->
              /\ state' = "Open"
              /\ last_failure' = now
              /\ UNCHANGED failure_counter
         [] state = "Open" ->
              /\ last_failure' = now
              /\ UNCHANGED <<state, failure_counter>>
    /\ UNCHANGED half_open_counter

(***************************************************************************)
(* Observation of the breaker: what the last allow_request returned, the   *)
(* number of on_failure calls since the last on_success (counted up to the *)
(* threshold), and the number of calls admitted since the circuit last     *)
(* left Open.                                                              *)
(***************************************************************************)
ObserveAllow(result) ==
    /\ allow_result' = result
    /\ probes_admitted' =
         IF result # "Ok" THEN probes_admitted
         ELSE IF state = "Open" THEN 1
         ELSE IF state = "HalfOpen" THEN probes_admitted + 1
         ELSE probes_admitted
    /\ UNCHANGED consecutive_failures

ObserveSuccess ==
    /\ consecutive_failures' = 0
    /\ probes_admitted' = 0
    /\ UNCHANGED allow_result

ObserveFailure ==
    /\ consecutive_failures' =
         IF consecutive_failures < failure_threshold
         THEN consecutive_failures + 1 ELSE consecutive_failures
    /\ probes_admitted' = 0
    /\ UNCHANGED allow_result

ExecIdle == [admitted |-> FALSE, invoked |-> 0, successes |-> 0,
             failures |-> 0, outcome |-> "none"]

(***************************************************************************)
(* Plan cache (cache.rs).  Keys are objectives; each entry holds the task  *)
(* and the time of its insertion.                                          *)
(***************************************************************************)
\* Option<PlanCache>::None, the value of Planner.cache when caching is off
NoPlanCache == [some |-> FALSE, capacity |-> 0, cache |-> <<>>, keys_order |-> <<>>]

\* PlanCache::new
PlanCacheNew(capacity) ==
    [some |-> TRUE,
     capacity |-> IF capacity > 1 THEN capacity ELSE 1,
     cache |-> <<>>,
     keys_order |-> <<>>]

\* Vec::remove(position of the first element equal to k)
RemoveFirst(seq, k) ==
    IF \E i \in 1..Len(seq) : seq[i] = k
    THEN LET idx == CHOOSE i \in 1..Len(seq) :
                      /\ seq[i] = k
                      /\ \A j \in 1..(i - 1) : seq[j] # k
         IN  SubSeq(seq, 1, idx - 1) \o SubSeq(seq, idx + 1, Len(seq))
    ELSE seq

\* HashMap::remove
MapRemove(map, k) == [x \in (DOMAIN map) \ {k} |-> map[x]]

\* HashMap::insert
MapInsert(map, k, v) ==
    [x \in (DOMAIN map) \cup {k} |-> IF x = k THEN v ELSE map[x]]

\* types::Task with no content, the payload of an absent Option<Task>
NoTypesTask == [id |-> <<>>, objective |-> <<>>, subtasks |-> <<>>]

\* PlanCache::get: Option<Task>
PlanCacheGet(c, objective) ==
    IF objective \in DOMAIN c.cache
    THEN [some |-> TRUE, task |-> c.cache[objective].task]
    ELSE [some |-> FALSE, task |-> NoTypesTask]

\* variant of PlanCacheInsert: eviction only once the capacity is exceeded
PlanCacheInsertLateEvict(c, objective, task, t) ==
    LET evict == /\ Cardinality(DOMAIN c.cache) > c.capacity
                 /\ objective \notin DOMAIN c.cache
                 /\ c.keys_order # <<>>
        cache1 == IF evict THEN MapRemove(c.cache, Head(c.keys_order)) ELSE c.cache
        order1 == IF evict THEN Tail(c.keys_order) ELSE c.keys_order
        order2 == Append(RemoveFirst(order1, objective), objective)
    IN  [c EXCEPT !.cache = MapInsert(cache1, objective,
                                      [task |-> task, inserted_at |-> t]),
                  !.keys_order = order2]

\* variant of PlanCacheInsert: the newest key is the one evicted
PlanCacheInsertEvictNewest(c, objective, task, t) ==
    LET evict == /\ Cardinality(DOMAIN c.cache) >= c.capacity
                 /\ objective \notin DOMAIN c.cache
                 /\ c.keys_order # <<>>
        last == Len(c.keys_order)
        cache1 == IF evict THEN MapRemove(c.cache, c.keys_order[last]) ELSE c.cache
        order1 == IF evict THEN SubSeq(c.keys_order, 1, last - 1) ELSE c.keys_order
        order2 == Append(RemoveFirst(order1, objective), objective)
    IN  [c EXCEPT !.cache = MapInsert(cache1, objective,
                                      [task |-> task, inserted_at |-> t]),
                  !.keys_order = order2]

\* variant of PlanCacheInsert: a key already present keeps its position
PlanCacheInsertKeepPosition(c, objective, task, t) ==
    LET evict == /\ Cardinality(DOMAIN c.cache) >= c.capacity
                 /\ objective \notin DOMAIN c.cache
                 /\ c.keys_order # <<>>
        cache1 == IF evict THEN MapRemove(c.cache, Head(c.keys_order)) ELSE c.cache
        order1 == IF evict THEN Tail(c.keys_order) ELSE c.keys_order
        order2 == IF \E i \in 1..Len(order1) : order1[i] = objective
                  THEN order1 ELSE Append(order1, objective)
    IN  [c EXCEPT !.cache = MapInsert(cache1, objective,
                                      [task |-> task, inserted_at |-> t]),
                  !.keys_order = order2]

\* PlanCache::insert
PlanCacheInsert(c, objective, task, t) ==
    LET evict == /\ Cardinality(DOMAIN c.cache) >= c.capacity
                 /\ objective \notin DOMAIN c.cache
                 /\ c.keys_order # <<>>
        cache1 == IF evict THEN MapRemove(c.cache, Head(c.keys_order)) ELSE c.cache
        order1 == IF evict THEN Tail(c.keys_order) ELSE c.keys_order
        order2 == Append(RemoveFirst(order1, objective), objective)
    IN  [c EXCEPT !.cache = MapInsert(cache1, objective,
                                      [task |-> task, inserted_at |-> t]),
                  !.keys_order = order2]

\* the keys of seq that are not in gone, in the order of seq
RECURSIVE FilterOut(_, _)
FilterOut(seq, gone) ==
    IF seq = <<>> THEN <<>>
    ELSE IF Head(seq) \in gone THEN FilterOut(Tail(seq), gone)
    ELSE <<Head(seq)>> \o FilterOut(Tail(seq), gone)

\* PlanCache::clear_old_entries at time t
PlanCacheClearOld(c, max_age, t) ==
    LET old_keys == {k \in DOMAIN c.cache : t - c.cache[k].inserted_at > max_age}
    IN  [c EXCEPT !.cache = [k \in (DOMAIN c.cache) \ old_keys |-> c.cache[k]],
                  !.keys_order = FilterOut(c.keys_order, old_keys)]

\* PlanCache::clear
PlanCacheClear(c) == [c EXCEPT !.cache = <<>>, !.keys_order = <<>>]

\* PlanCache::len
PlanCacheLen(c) == Cardinality(DOMAIN c.cache)

(***************************************************************************)
(* Local planning (planner.rs:342-617).  An objective is the sequence of   *)
(* its words; contains() looks for a keyword among the lower-cased words.  *)
(***************************************************************************)
Objectives ==
    { <<"X">>,
      <<"Scrape", "then", "save">>,
      <<"Analyze", "data">>,
      <<"find", "parse", "store">> }

ContextKeySets == { {}, {"url"} }

\* str::to_lowercase on one word
ToLower(w) ==
    CASE w = "X" -> "x"
      [] w = "Scrape" -> "scrape"
      [] w = "Analyze" -> "analyze"
      [] w = "Do" -> "do"
      [] w = "Process" -> "process"
      [] w = "Save" -> "save"
      [] OTHER -> w

\* lower_obj.contains(keyword)
Contains(objective, keyword) ==
    \E i \in 1..Len(objective) : ToLower(objective[i]) = keyword

ScrapeKeywords == {"scrape", "browse", "visit", "navigate", "search", "find", "look up"}
ProcessKeywords == {"process", "analyze", "extract", "summarize", "parse"}
StoreKeywords == {"save", "store", "record", "persist"}

\* variant of analyze: no General intent when nothing is recognised
analyze_no_default(objective) ==
    LET scrape == IF \E k \in ScrapeKeywords : Contains(objective, k)
                  THEN <<"Scrape">> ELSE <<>>
        process == IF \E k \in ProcessKeywords : Contains(objective, k)
                   THEN <<"Process">> ELSE <<>>
        store == IF \E k \in StoreKeywords : Contains(objective, k)
                 THEN <<"Store">> ELSE <<>>
    IN  scrape \o process \o store

\* LocalIntentAnalyzer::analyze
analyze(objective) ==
    LET scrape == IF \E k \in ScrapeKeywords : Contains(objective, k)
                  THEN <<"Scrape">> ELSE <<>>
        process == IF \E k \in ProcessKeywords : Contains(objective, k)
                   THEN <<"Process">> ELSE <<>>
        store == IF \E k \in StoreKeywords : Contains(objective, k)
                 THEN <<"Store">> ELSE <<>>
        intents == scrape \o process \o store
    IN  IF intents = <<>> THEN <<"General">> ELSE intents

\* Uuid::new_v4(): the k-th identifier drawn during call number n
Uuid(n, k) == <<"uuid", n, k>>

SeqContains(seq, x) == \E i \in 1..Len(seq) : seq[i] = x

\* the subtask pushed for intents[idx] (idx counts from 1), if any
SubtaskFor(n, objective, intents, available_inputs, idx, dependencies) ==
    LET intent == intents[idx]
        subtask_id == Uuid(n, idx)
    IN  CASE intent = "Scrape" ->
               LET has_url == \E k \in available_inputs : k = "target_url" \/ k = "url"
               IN  <<[id |-> subtask_id,
                      objective |-> <<"Scrape information related to:", objective>>,
                      required_agent |-> "Scrape",
                      dependencies |-> <<>>,
                      input_keys |-> IF has_url THEN {"target_url"} ELSE {},
                      output_key |-> "page_content"]>>
          [] intent = "Process" ->
               <<[id |-> subtask_id,
                  objective |-> <<"Process information for:", objective>>,
                  required_agent |-> "Process",
                  dependencies |-> IF SeqContains(intents, "Scrape")
                                   THEN dependencies ELSE <<>>,
                  input_keys |-> IF SeqContains(intents, "Scrape")
                                 THEN {"page_content"}
                                 ELSE available_inputs,
                  output_key |-> "processed_data"]>>
          [] intent = "Store" ->
               <<[id |-> subtask_id,
                  objective |-> <<"Store results for:", objective>>,
                  required_agent |-> "Data",
                  dependencies |-> dependencies,
                  input_keys |-> IF SeqContains(intents, "Process")
                                 THEN {"processed_data"}
                                 ELSE IF SeqContains(intents, "Scrape")
                                      THEN {"page_content"} ELSE {},
                  output_key |-> "stored_location"]>>
          [] intent = "General" ->
               IF idx = 1 /\ Len(intents) = 1
               THEN <<[id |-> subtask_id,
                       objective |-> <<"", objective>>,
                       required_agent |-> "General",
                       dependencies |-> <<>>,
                       input_keys |-> available_inputs,
                       output_key |-> "result"]>>
               ELSE <<>>

RECURSIVE GenerateLoopForgetsScrape(_, _, _, _, _, _, _)
\* variant of GenerateLoop: the id of a Scrape subtask is not pushed on the
\* running dependencies
GenerateLoopForgetsScrape(n, objective, intents, available_inputs, idx, subtasks, dependencies) ==
    IF idx > Len(intents) THEN subtasks
    ELSE LET pushed == SubtaskFor(n, objective, intents, available_inputs,
                                  idx, dependencies)
             deps1 == IF intents[idx] = "Process"
                      THEN Append(dependencies, Uuid(n, idx))
                      ELSE dependencies
         IN  GenerateLoopForgetsScrape(n, objective, intents, available_inputs,
                                       idx + 1, subtasks \o pushed, deps1)

RECURSIVE GenerateLoop(_, _, _, _, _, _, _)
\* the loop of SubtaskGenerator::generate_subtasks from intents[idx] on
GenerateLoop(n, objective, intents, available_inputs, idx, subtasks, dependencies) ==
    IF idx > Len(intents) THEN subtasks
    ELSE LET pushed == SubtaskFor(n, objective, intents, available_inputs,
                                  idx, dependencies)
             deps1 == IF intents[idx] \in {"Scrape", "Process"}
                      THEN Append(dependencies, Uuid(n, idx))
                      ELSE dependencies
         IN  GenerateLoop(n, objective, intents, available_inputs, idx + 1,
                          subtasks \o pushed, deps1)

\* SubtaskGenerator::generate_subtasks
generate_subtasks(n, objective, intents, available_inputs) ==
    GenerateLoop(n, objective, intents, available_inputs, 1, <<>>, <<>>)

\* all_subtasks.iter().find(|st| &st.id == dep_id): index of the match, or 0
FindSubtask(all_subtasks, dep_id) ==
    IF \E i \in 1..Len(all_subtasks) : all_subtasks[i].id = dep_id
    THEN CHOOSE i \in 1..Len(all_subtasks) :
           /\ all_subtasks[i].id = dep_id
           /\ \A j \in 1..(i - 1) : all_subtasks[j].id # dep_id
    ELSE 0

RECURSIVE has_cycle(_, _, _, _)
RECURSIVE HasCycleDeps(_, _, _, _, _)
\* the loop over current.dependencies in has_cycle, from dependency i on
HasCycleDeps(current, all_subtasks, i, visited, path) ==
    IF i > Len(current.dependencies)
    THEN [found |-> FALSE, visited |-> visited, path |-> path \ {current.id}]
    ELSE LET d == FindSubtask(all_subtasks, current.dependencies[i])
         IN  IF d = 0
             THEN HasCycleDeps(current, all_subtasks, i + 1, visited, path)
             ELSE IF all_subtasks[d].id \notin visited
                  THEN LET r == has_cycle(all_subtasks[d], all_subtasks, visited, path)
                       IN  IF r.found THEN r
                           ELSE HasCycleDeps(current, all_subtasks, i + 1,
                                             r.visited, r.path)
                  ELSE IF all_subtasks[d].id \in path
                       THEN [found |-> TRUE, visited |-> visited, path |-> path]
                       ELSE HasCycleDeps(current, all_subtasks, i + 1, visited, path)

\* has_cycle
has_cycle(current, all_subtasks, visited, path) ==
    HasCycleDeps(current, all_subtasks, 1,
                 visited \cup {current.id}, path \cup {current.id})

\* variant of ValidateCycles: only the subtasks reached from the first one
\* are searched
ValidateCyclesFirstOnly(subtasks, i, visited, path) ==
    has_cycle(subtasks[1], subtasks, visited, path).found

RECURSIVE ValidateCycles(_, _, _, _)
\* the cycle loop of validate_plan from subtask i on
ValidateCycles(subtasks, i, visited, path) ==
    IF i > Len(subtasks) THEN FALSE
    ELSE IF subtasks[i].id \in visited
         THEN ValidateCycles(subtasks, i + 1, visited, path)
         ELSE LET r == has_cycle(subtasks[i], subtasks, visited, path)
              IN  IF r.found THEN TRUE
                  ELSE ValidateCycles(subtasks, i + 1, r.visited, r.path)

\* validate_plan: "Ok" or the error
validate_plan(subtasks) ==
    IF subtasks = <<>> THEN "Generated plan has no subtasks"
    ELSE IF ValidateCycles(subtasks, 1, {}, {})
         THEN "Generated plan has circular dependencies"
         ELSE IF \E i \in 1..Len(subtasks) :
                   \E j \in 1..Len(subtasks[i].dependencies) :
                      FindSubtask(subtasks, subtasks[i].dependencies[j]) = 0
              THEN "Subtask depends on non-existent subtask"
              ELSE "Ok"

NoTask == [id |-> <<>>, objective |-> <<>>, subtasks |-> <<>>]

\* local_planning, for call number n
local_planning(n, objective, context_keys) ==
    LET intents == analyze(objective)
        subtasks == generate_subtasks(n, objective, intents, context_keys)
        valid == validate_plan(subtasks)
    IN  IF valid # "Ok"
        THEN [ok |-> FALSE, task |-> NoTask, error |-> valid]
        ELSE [ok |-> TRUE,
              task |-> [id |-> Uuid(n, 0), objective |-> objective,
                        subtasks |-> subtasks],
              error |-> None]

(***************************************************************************)
(* Planner facade (planner.rs:53-298, 619-921).                            *)
(***************************************************************************)
Modes == {"LaVague", "Local", "Hybrid"}

\* LAVAGUE_CACHE_CAPACITY default
DefaultCacheCapacity == 100
\* LAVAGUE_CIRCUIT_THRESHOLD default
DefaultFailureThreshold == 5

\* Planner::convert_types_task_to_task
convert_types_task_to_task(t) ==
    [id |-> t.id,
     objective |-> t.objective,
     subtasks |-> [i \in 1..Len(t.subtasks) |->
        [id |-> t.subtasks[i].id,
         objective |-> t.subtasks[i].objective,
         required_agent |-> t.subtasks[i].required_agent,
         dependencies |-> t.subtasks[i].dependencies,
         input_keys |-> t.subtasks[i].input_keys,
         output_key |-> IF t.subtasks[i].output_keys = <<>> THEN ""
                        ELSE Head(t.subtasks[i].output_keys)]]]

\* Planner::convert_task_to_types_task
convert_task_to_types_task(t) ==
    [id |-> t.id,
     objective |-> t.objective,
     subtasks |-> [i \in 1..Len(t.subtasks) |->
        [id |-> t.subtasks[i].id,
         objective |-> t.subtasks[i].objective,
         required_agent |-> t.subtasks[i].required_agent,
         input_keys |-> t.subtasks[i].input_keys,
         output_keys |-> <<t.subtasks[i].output_key>>,
         dependencies |-> t.subtasks[i].dependencies]]]

\* Planner::get_from_cache: Option<task::Task>
get_from_cache(planner_cache, objective) ==
    IF planner_cache.some
    THEN LET hit == PlanCacheGet(planner_cache, objective)
         IN  IF hit.some
             THEN [some |-> TRUE, task |-> convert_types_task_to_task(hit.task)]
             ELSE [some |-> FALSE, task |-> NoTask]
    ELSE [some |-> FALSE, task |-> NoTask]

\* Planner::store_in_cache
store_in_cache(planner_cache, objective, task, t) ==
    IF planner_cache.some
    THEN PlanCacheInsert(planner_cache, objective,
                         convert_task_to_types_task(task), t)
    ELSE planner_cache

\* Planner::new: Err when a remote mode has no LAVAGUE_ENDPOINT; the
\* feedback collector exists only together with the remote client
PlannerNew ==
    [ok |-> (mode = "Local" \/ endpoint_set),
     actor_system |-> (mode # "Local"),
     feedback_collector |-> (feedback_enabled /\ mode # "Local"),
     cache |-> IF enable_cache THEN PlanCacheNew(DefaultCacheCapacity)
               ELSE NoPlanCache]

(***************************************************************************)
(* What the remote decomposition service may answer to one request: an     *)
(* error, or any Task document.                                            *)
(***************************************************************************)
RemoteErrors == {"ServiceUnavailable", "Timeout"}
RemoteId(k) == <<"remote", 0, k>>

RemoteSubtask(k, deps) ==
    [id |-> RemoteId(k), objective |-> <<"remote step">>,
     required_agent |-> "Scrape", input_keys |-> {},
     output_keys |-> <<"page_content">>, dependencies |-> deps]

RemoteSubtaskLists ==
    { <<RemoteSubtask(1, <<>>), RemoteSubtask(2, <<RemoteId(1)>>)>>,
      <<>>,
      <<RemoteSubtask(1, <<RemoteId(2)>>), RemoteSubtask(2, <<RemoteId(1)>>)>>,
      <<RemoteSubtask(1, <<RemoteId(9)>>)>> }

RemoteOutcomes(objective) ==
    { [ok |-> FALSE, task |-> NoTypesTask, error |-> e] : e \in RemoteErrors }
    \cup
    { [ok |-> TRUE,
       task |-> [id |-> RemoteId(0), objective |-> objective, subtasks |-> l],
       error |-> None] : l \in RemoteSubtaskLists }

\* ExecutionTrace handed to FeedbackCollector::submit
Trace(subtask_id, agent_type, status) ==
    [subtask_id |-> subtask_id, agent_type |-> agent_type, status |-> status]

StatusOf(ok) == IF ok THEN "Completed" ELSE "Failed"

\* what one call has done so far
Ran(result, remote_invocations, local_invocations, traces) ==
    [ok |-> result.ok, task |-> result.task, error |-> result.error,
     remote_invocations |-> remote_invocations,
     local_invocations |-> local_invocations,
     traces |-> traces]

\* PlannerActorSystem::decompose_task followed by the conversion of its Ok value
ActorDecompose(remote) ==
    [ok |-> remote.ok,
     task |-> IF remote.ok THEN convert_types_task_to_task(remote.task) ELSE NoTask,
     error |-> remote.error]

\* variant of DispatchLaVague: a failed remote call falls back to local planning
DispatchLaVagueWithFallback(planner, n, objective, context_keys, remote) ==
    LET result == ActorDecompose(remote)
        trace == IF planner.feedback_collector
                 THEN <<Trace("lavague_planning", "lavague", StatusOf(result.ok))>>
                 ELSE <<>>
    IN  IF result.ok THEN Ran(result, 1, 0, trace)
        ELSE Ran(local_planning(n, objective, context_keys), 1, 1, trace)

\* the PlannerMode::LaVague arm of decompose_task
DispatchLaVague(planner, n, objective, context_keys, remote) ==
    IF planner.actor_system
    THEN LET result == ActorDecompose(remote)
         IN  Ran(result, 1, 0,
                 IF planner.feedback_collector
                 THEN <<Trace("lavague_planning", "lavague", StatusOf(result.ok))>>
                 ELSE <<>>)
    ELSE Ran(local_planning(n, objective, context_keys), 0, 1,
             IF planner.feedback_collector
             THEN <<Trace("lavague_unavailable", "fallback", "InProgress")>>
             ELSE <<>>)

\* the PlannerMode::Local arm of decompose_task
DispatchLocal(planner, n, objective, context_keys) ==
    LET result == local_planning(n, objective, context_keys)
    IN  Ran(result, 0, 1,
            IF planner.feedback_collector
            THEN <<Trace("local_planning", "local", StatusOf(result.ok))>>
            ELSE <<>>)

\* variant of DispatchHybrid: the remote error is returned, without fallback
DispatchHybridNoFallback(planner, n, objective, context_keys, remote) ==
    LET lavague_result == ActorDecompose(remote)
    IN  Ran(lavague_result, 1, 0,
            IF planner.feedback_collector
            THEN <<Trace("hybrid_lavague", "lavague", StatusOf(lavague_result.ok))>>
            ELSE <<>>)

\* the PlannerMode::Hybrid arm of decompose_task
DispatchHybrid(planner, n, objective, context_keys, remote) ==
    IF planner.actor_system
    THEN LET lavague_result == ActorDecompose(remote)
             lavague_trace ==
                 IF planner.feedback_collector
                 THEN <<Trace("hybrid_lavague", "lavague", StatusOf(lavague_result.ok))>>
                 ELSE <<>>
         IN  IF lavague_result.ok
             THEN Ran(lavague_result, 1, 0, lavague_trace)
             ELSE LET local_result == local_planning(n, objective, context_keys)
                  IN  Ran(local_result, 1, 1,
                          lavague_trace \o
                          (IF planner.feedback_collector
                           THEN <<Trace("hybrid_local_fallback", "local",
                                        StatusOf(local_result.ok))>>
                           ELSE <<>>))
    ELSE Ran(local_planning(n, objective, context_keys), 0, 1,
             IF planner.feedback_collector
             THEN <<Trace("hybrid_actor_unavailable", "system", "Failed")>>
             ELSE <<>>)

\* the match on mode in decompose_task
Dispatch(planner, n, objective, context_keys, remote) ==
    CASE mode = "LaVague" -> DispatchLaVague(planner, n, objective, context_keys, remote)
      [] mode = "Local" -> DispatchLocal(planner, n, objective, context_keys)
      [] mode = "Hybrid" -> DispatchHybrid(planner, n, objective, context_keys, remote)

ModeString == CASE mode = "LaVague" -> "lavague"
                [] mode = "Local" -> "local"
                [] mode = "Hybrid" -> "hybrid"

\* decompose_task, call number n at time t: what it returns, what it
\* invoked, the traces it submitted and the cache of its Planner at return
decompose_task(n, objective, context_keys, remote, t) ==
    LET planner == PlannerNew
    IN  IF ~planner.ok
        THEN [ok |-> FALSE, task |-> NoTask,
              error |-> "LAVAGUE_ENDPOINT environment variable is required",
              remote_invocations |-> 0, local_invocations |-> 0,
              traces |-> <<>>, source |-> "none", cache |-> NoPlanCache]
        ELSE LET cached == get_from_cache(planner.cache, objective)
             IN  IF enable_cache /\ cached.some
                 THEN [ok |-> TRUE, task |-> cached.task, error |-> None,
                       remote_invocations |-> 0, local_invocations |-> 0,
                       traces |-> IF planner.feedback_collector
                                  THEN <<Trace("cache_hit", "cache", "Completed")>>
                                  ELSE <<>>,
                       source |-> "cache", cache |-> planner.cache]
                 ELSE LET ran == Dispatch(planner, n, objective, context_keys, remote)
                          overall ==
                              IF planner.feedback_collector
                              THEN <<Trace("overall_planning", ModeString,
                                           StatusOf(ran.ok))>>
                              ELSE <<>>
                      IN  [ok |-> ran.ok, task |-> ran.task, error |-> ran.error,
                           remote_invocations |-> ran.remote_invocations,
                           local_invocations |-> ran.local_invocations,
                           traces |-> ran.traces \o overall,
                           source |-> IF ran.local_invocations > 0 THEN "local"
                                      ELSE "remote",
                           cache |-> IF ran.ok /\ enable_cache
                                     THEN store_in_cache(planner.cache, objective,
                                                         ran.task, t)
                                     ELSE planner.cache]

\* what becomes of a trace handed to FeedbackCollector::submit in a spawned
\* task: queued, refused by a closed queue, or the task never runs
FeedbackOutcomes == {"queued", "failed", "never"}

\* the caller's result if it awaited the submission and returned its error
SpawnSubmitAwaited(r, submit) ==
    IF submit = "failed" /\ r.traces # <<>>
    THEN [ok |-> FALSE, task |-> NoTask, error |-> "Failed to queue feedback",
          warned |-> FALSE]
    ELSE [ok |-> r.ok, task |-> r.task, error |-> r.error, warned |-> FALSE]

\* the traces of a call are submitted in spawned tasks: an error of submit
\* is logged there, and the caller returns the result of planning
SpawnSubmit(r, submit) ==
    [ok |-> r.ok, task |-> r.task, error |-> r.error,
     warned |-> (submit = "failed" /\ r.traces # <<>>)]

NoId == <<>>
NoFirstOk == [objective |-> <<>>, id |-> NoId]
NoOutcome ==
    [objective |-> <<>>, context_keys |-> {}, ok |-> FALSE, task |-> NoTask,
     error |-> None, remote_invocations |-> 0, local_invocations |-> 0,
     remote_answer |-> "none", traces |-> <<>>, source |-> "none",
     submit |-> "never", warned |-> FALSE,
     planned |-> [ok |-> FALSE, task |-> NoTask, error |-> None,
                  traces |-> <<>>]]

(***************************************************************************)
(* Rule-based fallback planner (fallback.rs).  A keyword occurs in an      *)
(* objective when it is one of its lower-cased words; no learned pattern   *)
(* is stored, learn_from_execution not being called.                       *)
(***************************************************************************)
PlanningRule(name, priority, keywords, agent_type, required_inputs,
             output_keys, stage) ==
    [name |-> name, priority |-> priority, keywords |-> keywords,
     agent_type |-> agent_type, required_inputs |-> required_inputs,
     output_keys |-> output_keys, stage |-> stage]

\* FallbackPlanner::default_rules
default_rules ==
    << PlanningRule("Web Scraping", 10,
           {"scrape", "browse", "visit", "navigate", "search", "find online",
            "look up", "website", "webpage", "http", "https", "url"},
           "Scrape", <<"target_url">>, <<"page_content", "status_code">>, 10),
       PlanningRule("Content Processing", 20,
           {"process", "analyze", "extract", "summarize", "parse", "transform"},
           "Process", <<"content", "page_content">>,
           <<"processed_data", "summary">>, 20),
       PlanningRule("Data Storage", 30,
           {"save", "store", "record", "persist", "database"},
           "Data", <<"data", "processed_data", "content">>,
           <<"stored_location", "success">>, 30),
       PlanningRule("Vision Analysis", 15,
           {"image", "picture", "photo", "visual", "vision", "look at",
            "analyze image"},
           "Vision", <<"image_path", "image_url">>,
           <<"vision_result", "detected_objects">>, 15),
       PlanningRule("Time Operations", 25,
           {"schedule", "timer", "wait", "delay", "remind", "after", "before"},
           "Time", <<"duration", "target_time">>, <<"completion_time">>, 25) >>

\* the rule files given to load_rules: one with a rule that requires no
\* input, one with a rule that has the name of a default rule
RuleFiles ==
    { << PlanningRule("General", 50, {"help"}, "Process", <<>>,
                      <<"result">>, 5) >>,
      << PlanningRule("Content Processing", 5, {"process"}, "Process", <<>>,
                      <<"content">>, 5) >> }

RECURSIVE SortByKey(_, _)
\* sort_by_key on the field key: a stable sort
SortByKey(seq, key) ==
    IF seq = <<>> THEN <<>>
    ELSE LET sorted == SortByKey(SubSeq(seq, 1, Len(seq) - 1), key)
             last == seq[Len(seq)]
             before == SelectSeq(sorted, LAMBDA r : r[key] <= last[key])
             after == SelectSeq(sorted, LAMBDA r : r[key] > last[key])
         IN  before \o <<last>> \o after

\* FallbackPlanner::load_rules on a readable file
load_rules(old_rules, file) == SortByKey(old_rules \o file, "priority")

\* FallbackPlanner::match_rules
match_rules(all_rules, objective) ==
    LET by_keyword ==
            SelectSeq(all_rules,
                      LAMBDA r : \E k \in r.keywords : Contains(objective, k))
        matched_rules ==
            IF by_keyword = <<>>
            THEN SelectSeq(all_rules, LAMBDA r : r.required_inputs = <<>>)
            ELSE by_keyword
    IN  SortByKey(matched_rules, "stage")

\* FallbackPlanner::filter_rules_by_capabilities
filter_rules_by_capabilities(matched_rules, available_agent_types) ==
    SelectSeq(matched_rules, LAMBDA r : r.agent_type \in available_agent_types)

\* FallbackPlanner::build_dependency_graph
build_dependency_graph(matched_rules) ==
    [i \in 1..Len(matched_rules) |->
        [rule |-> matched_rules[i],
         dependencies |->
            SelectSeq(matched_rules,
                LAMBDA r : /\ r.stage < matched_rules[i].stage
                           /\ \E j \in 1..Len(r.output_keys) :
                                SeqContains(matched_rules[i].required_inputs,
                                            r.output_keys[j]))]]

\* id_map after the first pass of generate_subtasks: the identifier of the
\* last subtask created for a rule of that name
IdMap(n, graph, name) ==
    LET last == CHOOSE i \in 1..Len(graph) :
                    /\ graph[i].rule.name = name
                    /\ \A j \in (i + 1)..Len(graph) : graph[j].rule.name # name
    IN  Uuid(n, last)

RECURSIVE DependenciesPushed(_, _, _, _)
\* the dependencies that the second pass, up to entry upto of the graph,
\* has pushed on the subtask whose identifier is subtask_id
DependenciesPushed(n, graph, subtask_id, upto) ==
    IF upto = 0 THEN <<>>
    ELSE DependenciesPushed(n, graph, subtask_id, upto - 1) \o
         ( IF IdMap(n, graph, graph[upto].rule.name) = subtask_id
           THEN [j \in 1..Len(graph[upto].dependencies) |->
                    IdMap(n, graph, graph[upto].dependencies[j].name)]
           ELSE <<>> )

\* FallbackPlanner::generate_subtasks, in call number n
FallbackGenerateSubtasks(n, objective, graph, context_keys) ==
    [i \in 1..Len(graph) |->
        [id |-> Uuid(n, i),
         objective |-> <<graph[i].rule.name, ": ">> \o objective,
         required_agent |-> graph[i].rule.agent_type,
         dependencies |-> DependenciesPushed(n, graph, Uuid(n, i), Len(graph)),
         input_keys |-> SelectSeq(graph[i].rule.required_inputs,
                                  LAMBDA k : k \in context_keys),
         output_key |-> IF graph[i].rule.output_keys # <<>>
                        THEN graph[i].rule.output_keys[1] ELSE "result"]]

\* FallbackPlanner::generate_plan, in call number n
generate_plan(n, all_rules, available_agent_types, objective, context_keys) ==
    LET matched_rules == match_rules(all_rules, objective)
        filtered == filter_rules_by_capabilities(matched_rules,
                                                 available_agent_types)
        dependency_graph == build_dependency_graph(filtered)
    IN  [ok |-> TRUE,
         matched |-> matched_rules,
         task |-> [id |-> Uuid(n, 0), objective |-> objective,
                   subtasks |-> FallbackGenerateSubtasks(n, objective,
                                    dependency_graph, context_keys)]]

\* no generate_plan call has been made yet
NoPlan ==
    [called |-> 0, objective |-> <<>>, context_keys |-> {}, matched |-> <<>>,
     ok |-> FALSE, subtasks |-> <<>>]

\* a FallbackPlanner and its CapabilityDiscovery after construction
FallbackIdle ==
    /\ rules = default_rules
    /\ capabilities = {}
    /\ generated = NoPlan

\* no message, and an actor system on which nothing has been called
NoMessage == [caller |-> 0]
NoRequest == [requests |-> 0, op |-> "none", transport |-> [kind |-> "none"],
              result |-> [kind |-> "None", message |-> <<>>]]

ActorIdle ==
    /\ send_waiters = <<>>
    /\ mailbox = <<>>
    /\ handling = NoMessage
    /\ apc = [c \in Callers |-> "idle"]
    /\ reply = [c \in Callers |-> [kind |-> "None", message |-> <<>>]]
    /\ client_obs = NoRequest

\* validate_plan has not been called
ValidateIdle ==
    /\ subtasks_in = <<>>
    /\ validated = "none"

\* flush_pending_traces is not running
LocksIdle ==
    /\ flush_pc = "loop"
    /\ held = {}
    /\ io = "none"
    /\ collector_dropped = FALSE
    /\ processor_exited = FALSE
    /\ attempts = <<>>

\* local_planning has not been called
NoLocalResult == [ok |-> FALSE, task |-> NoTask, error |-> "not called"]

LocalIdle ==
    /\ lp_objective = <<>>
    /\ lp_context = {}
    /\ lp_result = NoLocalResult

ServicesIdle ==
    ActorIdle /\ FallbackIdle /\ ValidateIdle /\ LocksIdle /\ LocalIdle

(***************************************************************************)
(* The components that a specification does not exercise stay as they are  *)
(* after construction.                                                     *)
(***************************************************************************)
\* no PlannerError
NoError == [kind |-> "None", message |-> <<>>]

\* no error has been returned yet
ErrorsIdle ==
    /\ rejected_with = NoError
    /\ failed_with = NoError
    /\ downstream = NoError

\* no call has been made on a PlanCache yet
NoOp == [op |-> "none", key |-> <<>>, task |-> NoTypesTask,
         present |-> FALSE, full |-> FALSE]
NoGet == [some |-> FALSE, task |-> NoTypesTask]

PlanCacheIdle ==
    /\ got = NoGet
    /\ last_op = NoOp
    /\ inserts = 0
    /\ stamp = <<>>

\* a FeedbackCollector on which nothing has been called, and its observation
NoTrace == [task_id |-> <<>>, subtask_id |-> <<>>, status |-> "None"]
NoObservation ==
    [submitted |-> 0, accepted |-> FALSE, other_calls |-> FALSE,
     flush_attempts |-> 0, calls_in_step |-> 0, last_call |-> NoTrace,
     trigger |-> "none",
     resub_taken |-> <<>>, resub_results |-> <<>>, added_during |-> <<>>,
     persisted |-> {}, persisted_before |-> {}, delivered |-> {},
     at_startup |-> FALSE, loads |-> 0, restarts |-> 0]

FeedbackCollectorNew ==
    /\ submission_rx = <<>>
    /\ pending = <<>>
    /\ retry_counts = <<>>
    /\ failed = <<>>
    /\ flush_traces = <<>>
    /\ resubmit_pc = "idle"
    /\ resubmit_traces = <<>>
    /\ success_count = 0

FeedbackIdle ==
    /\ batch_size = 1
    /\ max_retries = 1
    /\ FeedbackCollectorNew
    /\ feedback_dir = <<>>
    /\ fb_obs = NoObservation

ComponentsIdle ==
    ErrorsIdle /\ PlanCacheIdle /\ FeedbackIdle /\ ServicesIdle

(***************************************************************************)
(* Actions of the circuit breaker specification.                           *)
(***************************************************************************)
Tick ==
    /\ now < MaxTime
    /\ now' = now + 1
    /\ UNCHANGED <<circuitVars, configVars, pc, observerVars, envVars, componentVars, plannerVars>>

AllowRequest ==
    /\ \E r \in AllowResults :
         /\ allow_request(r)
         /\ ObserveAllow(r)
    /\ UNCHANGED <<configVars, now, pc, exec, envVars, componentVars, plannerVars>>

OnSuccess ==
    /\ on_success
    /\ ObserveSuccess
    /\ UNCHANGED <<configVars, now, pc, exec, envVars, componentVars, plannerVars>>

OnFailure ==
    /\ on_failure
    /\ ObserveFailure
    /\ UNCHANGED <<configVars, now, pc, exec, envVars, componentVars, plannerVars>>

ExecAdmitted == [admitted |-> TRUE, invoked |-> 1, successes |-> 0,
                 failures |-> 0, outcome |-> "pending"]
ExecRejected == [admitted |-> FALSE, invoked |-> 0, successes |-> 0,
                 failures |-> 0, outcome |-> "rejected"]

\* variant of ExecuteBegin: a rejection is reported through on_failure
ExecuteBeginCountsRejection(c) ==
    /\ pc[c] = "idle"
    /\ \/ /\ allow_request("Ok")
          /\ ObserveAllow("Ok")
          /\ pc' = [pc EXCEPT ![c] = "running"]
          /\ exec' = [exec EXCEPT ![c] = ExecAdmitted]
       \/ /\ state = "Open"
          /\ ~ResetElapsed
          /\ last_failure' = now
          /\ UNCHANGED <<state, failure_counter, half_open_counter>>
          /\ ObserveAllow("ErrOpen")
          /\ pc' = pc
          /\ exec' = [exec EXCEPT ![c] = ExecRejected]
       \/ /\ state = "HalfOpen"
          /\ half_open_counter < MaxHalfOpenCounter
          /\ ~HalfOpenAdmits(half_open_counter)
          /\ half_open_counter' = half_open_counter + 1
          /\ state' = "Open"
          /\ last_failure' = now
          /\ UNCHANGED failure_counter
          /\ ObserveAllow("ErrHalfOpenCapacity")
          /\ pc' = pc
          /\ exec' = [exec EXCEPT ![c] = ExecRejected]
    /\ UNCHANGED <<configVars, now, envVars, componentVars, plannerVars>>

\* CircuitProtected::execute up to the await of f(&self.inner)
ExecuteBegin(c) ==
    /\ pc[c] = "idle"
    /\ \E r \in AllowResults :
         /\ allow_request(r)
         /\ ObserveAllow(r)
         /\ IF r = "Ok"
            THEN /\ pc' = [pc EXCEPT ![c] = "running"]
                 /\ exec' = [exec EXCEPT ![c] = ExecAdmitted]
            ELSE /\ pc' = pc
                 /\ exec' = [exec EXCEPT ![c] = ExecRejected]
    /\ UNCHANGED <<configVars, now, envVars, componentVars, plannerVars>>

\* CircuitProtected::execute from the completion of f: ok is f's outcome
ExecuteEnd(c, ok) ==
    /\ pc[c] = "running"
    /\ IF ok
       THEN /\ on_success
            /\ ObserveSuccess
            /\ exec' = [exec EXCEPT ![c].successes = @ + 1, ![c].outcome = "Ok"]
       ELSE /\ on_failure
            /\ ObserveFailure
            /\ exec' = [exec EXCEPT ![c].failures = @ + 1, ![c].outcome = "Err"]
    /\ pc' = [pc EXCEPT ![c] = "idle"]
    /\ UNCHANGED <<configVars, now, envVars, componentVars, plannerVars>>

PlannerIdle ==
    /\ mode = "Hybrid"
    /\ enable_cache = TRUE
    /\ feedback_enabled = FALSE
    /\ endpoint_set = TRUE
    /\ cache = NoPlanCache
    /\ calls = 0
    /\ outcome = NoOutcome
    /\ first_ok = NoFirstOk
    /\ remote_failed_at = NoInstant

InitCircuit ==
    /\ CircuitNew
    /\ failure_threshold \in 1..MaxThreshold
    /\ reset_timeout_ms \in 1..MaxResetTimeout
    /\ half_open_limit \in 1..MaxHalfOpenLimit
    /\ now = 0
    /\ pc = [c \in Callers |-> "idle"]
    /\ allow_result = None
    /\ consecutive_failures = 0
    /\ probes_admitted = 0
    /\ exec = [c \in Callers |-> ExecIdle]
    /\ PlannerIdle
    /\ ComponentsIdle

\* the state in which the specifications of the other components start:
\* a breaker configured as Planner::new configures it, and nothing called
InitComponents ==
    /\ CircuitNew
    /\ failure_threshold = DefaultFailureThreshold
    /\ reset_timeout_ms = 1
    /\ half_open_limit = 1
    /\ now = 0
    /\ pc = [c \in Callers |-> "idle"]
    /\ allow_result = None
    /\ consecutive_failures = 0
    /\ probes_admitted = 0
    /\ exec = [c \in Callers |-> ExecIdle]
    /\ PlannerIdle
    /\ ComponentsIdle

NextCircuit ==
    \/ Tick
    \/ AllowRequest
    \/ OnSuccess
    \/ OnFailure
    \/ \E c \in Callers : ExecuteBegin(c)
    \/ \E c \in Callers : \E ok \in BOOLEAN : ExecuteEnd(c, ok)

SpecCircuit == InitCircuit /\ [][NextCircuit]_vars

(***************************************************************************)
(* Actions of the planner specification: calls of decompose_task, each     *)
(* with its own Planner, and the passing of time between them.             *)
(***************************************************************************)
\* the answer given to the actor's request, if the call makes one
RemoteAnswers(objective) ==
    IF PlannerNew.ok /\ PlannerNew.actor_system
    THEN RemoteOutcomes(objective)
    ELSE {[ok |-> FALSE, task |-> NoTypesTask, error |-> None]}

\* one call of decompose_task on a request drawn from the given sets
DecomposeTaskOn(objectives, key_sets) ==
    /\ calls < MaxCalls
    /\ \E objective \in objectives :
       \E context_keys \in key_sets :
       \E remote \in RemoteAnswers(objective) :
       \E r \in {decompose_task(calls + 1, objective, context_keys, remote, now)} :
       \E submit \in IF r.traces = <<>> THEN {"never"} ELSE FeedbackOutcomes :
       \E ret \in {SpawnSubmit(r, submit)} :
             /\ outcome' = [objective |-> objective,
                            context_keys |-> context_keys,
                            ok |-> ret.ok, task |-> ret.task,
                            error |-> ret.error,
                            submit |-> submit, warned |-> ret.warned,
                            planned |-> [ok |-> r.ok, task |-> r.task,
                                         error |-> r.error,
                                         traces |-> r.traces],
                            remote_invocations |-> r.remote_invocations,
                            local_invocations |-> r.local_invocations,
                            remote_answer |->
                                IF r.remote_invocations = 0 THEN "none"
                                ELSE IF remote.ok THEN "Ok" ELSE remote.error,
                            traces |-> r.traces, source |-> r.source]
             /\ cache' = r.cache
             /\ first_ok' = IF r.ok /\ first_ok.id = NoId
                            THEN [objective |-> objective, id |-> r.task.id]
                            ELSE first_ok
             /\ remote_failed_at' =
                  IF r.remote_invocations > 0 /\ ~remote.ok
                  THEN now ELSE remote_failed_at
    /\ calls' = calls + 1
    \* Planner::new builds a circuit breaker for this call
    /\ state' = "Closed"
    /\ failure_counter' = 0
    /\ last_failure' = NoInstant
    /\ half_open_counter' = 0
    /\ UNCHANGED <<configVars, now, pc, observerVars, envVars, componentVars>>

DecomposeTask == DecomposeTaskOn(Objectives, ContextKeySets)

\* time passing between calls of decompose_task
Elapse ==
    /\ now < MaxElapse
    /\ now' = now + 1
    /\ UNCHANGED <<circuitVars, configVars, pc, observerVars, envVars, componentVars, plannerVars>>

InitPlanner ==
    /\ CircuitNew
    /\ failure_threshold \in {1, DefaultFailureThreshold}
    /\ reset_timeout_ms = MaxResetTimeout
    /\ half_open_limit = 1
    /\ now = 0
    /\ pc = [c \in Callers |-> "idle"]
    /\ allow_result = None
    /\ consecutive_failures = 0
    /\ probes_admitted = 0
    /\ exec = [c \in Callers |-> ExecIdle]
    /\ mode \in Modes
    /\ enable_cache \in BOOLEAN
    /\ feedback_enabled \in BOOLEAN
    /\ endpoint_set \in BOOLEAN
    /\ cache = NoPlanCache
    /\ calls = 0
    /\ outcome = NoOutcome
    /\ first_ok = NoFirstOk
    /\ remote_failed_at = NoInstant
    /\ ComponentsIdle

NextPlanner ==
    \/ Elapse
    \/ DecomposeTask

SpecPlanner == InitPlanner /\ [][NextPlanner]_vars

(***************************************************************************)
(* Properties of the planner facade.                                       *)
(***************************************************************************)
DecomposeStep == calls' = calls + 1

HasTrace(subtask_id, status) ==
    \E i \in 1..Len(outcome.traces) :
        /\ outcome.traces[i].subtask_id = subtask_id
        /\ outcome.traces[i].status = status

\* a task up to the choice of its identifiers: each dependency is named by
\* the position of the subtask it refers to
TaskShape(task) ==
    [objective |-> task.objective,
     subtasks |-> [i \in 1..Len(task.subtasks) |->
        [objective |-> task.subtasks[i].objective,
         required_agent |-> task.subtasks[i].required_agent,
         input_keys |-> task.subtasks[i].input_keys,
         output_key |-> task.subtasks[i].output_key,
         dependencies |-> [j \in 1..Len(task.subtasks[i].dependencies) |->
             FindSubtask(task.subtasks, task.subtasks[i].dependencies[j])]]]]

\* the subtasks that subtask i depends on directly
DependsOn(subtasks, i) ==
    { k \in 1..Len(subtasks) :
        \E j \in 1..Len(subtasks[i].dependencies) :
            subtasks[i].dependencies[j] = subtasks[k].id }

RECURSIVE ReachableIn(_, _, _)
\* the subtasks reached from the set from in at most steps dependency steps
ReachableIn(subtasks, from, steps) ==
    IF steps = 0 THEN from
    ELSE ReachableIn(subtasks,
                     from \cup UNION { DependsOn(subtasks, i) : i \in from },
                     steps - 1)

\* at least one subtask, no dependency cycle, no dangling dependency
WellFormedPlan(subtasks) ==
    /\ subtasks # <<>>
    /\ \A i \in 1..Len(subtasks) :
         /\ \A j \in 1..Len(subtasks[i].dependencies) :
              \E k \in 1..Len(subtasks) :
                  subtasks[k].id = subtasks[i].dependencies[j]
         /\ i \notin ReachableIn(subtasks, DependsOn(subtasks, i), Len(subtasks))

\* C1: once a call for objective X has succeeded with caching enabled, a
\* later call for X returns a Task with the same id and invokes neither the
\* remote client nor the local planner.
C1_SecondCallServedFromCache ==
    [][(/\ DecomposeStep
        /\ enable_cache
        /\ first_ok.id # NoId
        /\ outcome'.objective = first_ok.objective)
       => (/\ outcome'.ok
           /\ outcome'.task.id = first_ok.id
           /\ outcome'.remote_invocations = 0
           /\ outcome'.local_invocations = 0)]_vars

\* C2: with failure_threshold = 1 in a mode that uses the remote service,
\* once a remote call has failed, every call made before reset_timeout has
\* elapsed makes no remote invocation and returns the locally planned result.
C2_OpenCircuitSkipsRemote ==
    [][(/\ DecomposeStep
        /\ failure_threshold = 1
        /\ mode # "Local"
        /\ remote_failed_at # NoInstant
        /\ now - remote_failed_at < reset_timeout_ms)
       => (/\ outcome'.remote_invocations = 0
           /\ outcome'.ok
           /\ outcome'.source \in {"local", "cache"})]_vars

\* C3 as stated: in Hybrid mode, when the remote call returns an error, the
\* call succeeds with the plan of local planning and emits a hybrid_lavague
\* trace with status Failed and a hybrid_local_fallback trace with status
\* Completed.
C3_HybridFallbackAlwaysTraced ==
    (mode = "Hybrid" /\ outcome.remote_answer \in RemoteErrors) =>
        /\ outcome.ok
        /\ TaskShape(outcome.task) =
             TaskShape(local_planning(0, outcome.objective,
                                      outcome.context_keys).task)
        /\ HasTrace("hybrid_lavague", "Failed")
        /\ HasTrace("hybrid_local_fallback", "Completed")

\* C3 amended: in Hybrid mode, when the remote call returns an error, the
\* call succeeds with the plan of local planning, and when feedback
\* collection is enabled it emits a hybrid_lavague trace with status Failed
\* and a hybrid_local_fallback trace with status Completed.
C3_HybridFallback ==
    (mode = "Hybrid" /\ outcome.remote_answer \in RemoteErrors) =>
        /\ outcome.ok
        /\ outcome.local_invocations = 1
        /\ TaskShape(outcome.task) =
             TaskShape(local_planning(0, outcome.objective,
                                      outcome.context_keys).task)
        /\ feedback_enabled =>
             /\ HasTrace("hybrid_lavague", "Failed")
             /\ HasTrace("hybrid_local_fallback", "Completed")
        /\ ~feedback_enabled => outcome.traces = <<>>

C3_Witness ==
    /\ mode = "Hybrid"
    /\ feedback_enabled
    /\ outcome.remote_answer = "ServiceUnavailable"
    /\ outcome.ok
    /\ Len(outcome.task.subtasks) = 2
    /\ outcome.task.subtasks[2].dependencies = <<outcome.task.subtasks[1].id>>
    /\ Len(outcome.traces) = 3

\* C4 as stated: in Remote mode, when the remote call fails, the call
\* falls back to the local planner, returns its result instead of the
\* remote error, and records the remote failure as a feedback trace.
C4_RemoteModeFallsBack ==
    (mode = "LaVague" /\ outcome.remote_answer \in RemoteErrors) =>
        /\ outcome.ok
        /\ outcome.local_invocations = 1
        /\ feedback_enabled => HasTrace("lavague_planning", "Failed")

\* C4 amended: in Remote mode, when the remote call fails, the call does not
\* run the local planner; it returns the remote error, and when feedback
\* collection is enabled it records the failure as a lavague_planning trace
\* with status Failed.
C4_RemoteModeReturnsError ==
    (mode = "LaVague" /\ outcome.remote_answer \in RemoteErrors) =>
        /\ ~outcome.ok
        /\ outcome.error = outcome.remote_answer
        /\ outcome.local_invocations = 0
        /\ feedback_enabled => HasTrace("lavague_planning", "Failed")
        /\ ~feedback_enabled => outcome.traces = <<>>

C4_Witness ==
    /\ mode = "LaVague"
    /\ feedback_enabled
    /\ outcome.remote_answer = "Timeout"
    /\ ~outcome.ok
    /\ outcome.error = "Timeout"
    /\ Len(outcome.traces) = 2

\* C5: every Task returned as a success, from the cache, the remote service
\* or local planning, has at least one subtask, an acyclic dependency
\* relation and only dependency ids of subtasks of the same Task.
C5_ReturnedTaskWellFormed ==
    outcome.ok => WellFormedPlan(outcome.task.subtasks)

\* the traces of the last call whose subtask_id is overall_planning
OverallTraces ==
    { i \in 1..Len(outcome.traces) :
        outcome.traces[i].subtask_id = "overall_planning" }

\* C21: every decompose_task call, on every branch, emits exactly one
\* overall_planning trace; stated here for the calls made with feedback
\* collection enabled only.
C21_OneOverallTracePerCall ==
    (calls > 0 /\ feedback_enabled) => Cardinality(OverallTraces) = 1

\* what the caller of decompose_task receives
Returned(r) == [ok |-> r.ok, task |-> r.task, error |-> r.error]

\* C22: the result of decompose_task is the one it would be under any
\* other outcome of its feedback submissions, and it is never the error of
\* a feedback submission.
C22_ResultIndependentOfFeedback ==
    calls > 0 =>
        /\ \A submit \in FeedbackOutcomes :
               Returned(SpawnSubmit(outcome.planned, submit)) = Returned(outcome)
        /\ outcome.error # "Failed to queue feedback"

C22_Witness ==
    /\ calls > 0
    /\ outcome.submit = "failed"
    /\ outcome.warned
    /\ outcome.ok
    /\ outcome.traces # <<>>

\* the objective has a scrape keyword and a store keyword and no processing
\* keyword
ScrapeAndStoreOnly(objective) ==
    /\ \E k \in ScrapeKeywords : Contains(objective, k)
    /\ \E k \in StoreKeywords : Contains(objective, k)
    /\ ~ \E k \in ProcessKeywords : Contains(objective, k)

\* C30: in Local mode, an objective with a scrape keyword, a store keyword
\* and no processing keyword yields exactly two subtasks, a Scrape subtask
\* and a Data subtask, and the dependencies of the Data subtask contain the
\* id of the Scrape subtask.
C30_ScrapeThenStore ==
    (mode = "Local" /\ calls > 0 /\ ScrapeAndStoreOnly(outcome.objective)) =>
        /\ outcome.ok
        /\ Len(outcome.task.subtasks) = 2
        /\ \E i, j \in 1..2 :
              /\ outcome.task.subtasks[i].required_agent = "Scrape"
              /\ outcome.task.subtasks[j].required_agent = "Data"
              /\ SeqContains(outcome.task.subtasks[j].dependencies,
                             outcome.task.subtasks[i].id)

C30_Witness ==
    /\ mode = "Local"
    /\ calls > 0
    /\ outcome.objective = <<"Scrape", "then", "save">>
    /\ outcome.ok
    /\ outcome.source = "local"
    /\ Len(outcome.task.subtasks) = 2

(***************************************************************************)
(* Properties of the circuit breaker.                                      *)
(***************************************************************************)
AllowStep == AllowRequest \/ \E c \in Callers : ExecuteBegin(c)
SuccessStep == OnSuccess \/ \E c \in Callers : ExecuteEnd(c, TRUE)
FailureStep == OnFailure \/ \E c \in Callers : ExecuteEnd(c, FALSE)

\* C6: starting from Closed with failure_threshold = N, the circuit is still
\* Closed after fewer than N consecutive on_failure calls (no on_success
\* between them), and it becomes Open exactly at the N-th.
C6_TripsAtThreshold ==
    /\ [](state = "Closed" => consecutive_failures < failure_threshold)
    /\ [][(state = "Closed" /\ FailureStep) =>
            (state' = "Open" <=> consecutive_failures' = failure_threshold)]_vars

C6_Witness ==
    /\ failure_threshold = 2
    /\ state = "Open"
    /\ consecutive_failures = 2
    /\ failure_counter = 2

\* C7: while the circuit is Open and less than reset_timeout has elapsed
\* since the last recorded failure, every allow_request call is rejected and
\* the state stays Open.
C7_OpenRejectsBeforeTimeout ==
    [][(/\ state = "Open"
        /\ last_failure # NoInstant
        /\ now - last_failure < reset_timeout_ms
        /\ AllowStep)
       => (state' = "Open" /\ allow_result' = "ErrOpen")]_vars

C7_Witness ==
    /\ state = "Open"
    /\ allow_result = "ErrOpen"
    /\ now > last_failure
    /\ now - last_failure < reset_timeout_ms

\* C8: after reset_timeout elapses on an Open circuit, at most
\* half_open_limit allow_request calls are admitted (exactly one when
\* half_open_limit = 1) until on_success or on_failure is recorded.
C8_AtMostLimitProbes ==
    state = "HalfOpen" => probes_admitted <= half_open_limit

\* C9: in HalfOpen, on_success moves the circuit to Closed, where
\* allow_request succeeds; on_failure moves it back to Open and records the
\* failure time, from which the reset timeout is counted again.
C9_HalfOpenOutcome ==
    [][/\ (state = "HalfOpen" /\ SuccessStep) => state' = "Closed"
       /\ (state = "HalfOpen" /\ FailureStep) =>
             (state' = "Open" /\ last_failure' = now /\ ~ResetElapsed')
       /\ (state = "Closed" /\ AllowStep) =>
             (allow_result' = "Ok" /\ state' = "Closed")]_vars

C9_Witness ==
    /\ state = "Closed"
    /\ last_failure # NoInstant
    /\ failure_counter = 0
    /\ allow_result = "Ok"
    /\ probes_admitted = 0

\* C10: execute runs the operation only when allow_request admits the call;
\* a rejected call does not run it and leaves failure_counter and
\* last_failure unchanged; an admitted call reports its outcome exactly
\* once, on_success for Ok and on_failure for Err.
C10_ExecuteReportsOnce ==
    /\ [](\A c \in Callers :
            /\ exec[c].invoked = (IF exec[c].admitted THEN 1 ELSE 0)
            /\ pc[c] = "running" =>
                 (exec[c].admitted /\ exec[c].successes + exec[c].failures = 0)
            /\ (pc[c] = "idle" /\ exec[c].admitted) =>
                 \/ exec[c].outcome = "Ok" /\ exec[c].successes = 1
                                           /\ exec[c].failures = 0
                 \/ exec[c].outcome = "Err" /\ exec[c].successes = 0
                                            /\ exec[c].failures = 1)
    /\ [][\A c \in Callers :
            /\ (ExecuteBegin(c) /\ allow_result' # "Ok") =>
                 /\ pc'[c] = "idle"
                 /\ exec'[c].invoked = 0
                 /\ failure_counter' = failure_counter
                 /\ last_failure' = last_failure
            /\ ExecuteEnd(c, TRUE) =>
                 /\ last_failure' = last_failure
                 /\ state # "Open" => (failure_counter' = 0 /\ state' = "Closed")
            /\ ExecuteEnd(c, FALSE) =>
                 /\ state = "Closed" => failure_counter' = failure_counter + 1
                 /\ state # "Closed" => (last_failure' = now /\ state' = "Open")]_vars

C10_Witness ==
    \E c, d \in Callers :
        /\ exec[c].outcome = "rejected"
        /\ pc[c] = "idle"
        /\ exec[d].outcome = "Err"
        /\ exec[d].failures = 1
        /\ failure_counter = 1

\* C31: when several callers invoke allow_request concurrently on an Open
\* circuit whose reset_timeout has elapsed, exactly one of them is admitted:
\* a call of execute admitted while the circuit is Open or HalfOpen is the
\* only call admitted since the circuit was last Open.
C31_OneCallerAdmittedAfterReset ==
    [][(/\ state \in {"Open", "HalfOpen"}
        /\ \E c \in Callers : pc[c] = "idle" /\ pc'[c] = "running")
       => probes_admitted' = 1]_vars

\* C32: whenever the circuit transitions to Closed, the consecutive-failure
\* count and the half-open trial count are both zero.
C32_CountersZeroWhenClosing ==
    [][(state # "Closed" /\ state' = "Closed")
       => (failure_counter' = 0 /\ half_open_counter' = 0)]_vars

(***************************************************************************)
(* Error values of the breaker (circuit.rs:88, 96, 210; types.rs:72-125).  *)
(* A PlannerError is its variant and the text it carries, the text being   *)
(* the sequence of its pieces.                                             *)
(***************************************************************************)
PlannerErrorOf(kind, message) == [kind |-> kind, message |-> message]

\* the Ok value of a Result
OkResult == [kind |-> "Ok", message |-> <<>>]

\* impl Display for PlannerError
Display(e) ==
    CASE e.kind = "RateLimited" -> <<"Rate limited">>
      [] e.kind = "Timeout" -> <<"Request timed out">>
      [] e.kind = "SecurityError" -> <<"Security error: ">> \o e.message
      [] e.kind = "Other" -> <<"Other error: ">> \o e.message
      [] e.kind = "Network" -> <<"Network error: ">> \o e.message
      [] e.kind = "Authentication" -> <<"Authentication error: ">> \o e.message
      [] e.kind = "ServiceUnavailable" -> <<"Service unavailable: ">> \o e.message
      [] e.kind = "InvalidResponse" -> <<"Invalid response: ">> \o e.message
      [] OTHER -> e.message

\* the Err of allow_request for each rejecting result
AllowRequestError(result) ==
    CASE result = "ErrOpen" ->
           PlannerErrorOf("ServiceUnavailable", <<"Circuit breaker is open">>)
      [] result = "ErrHalfOpenCapacity" ->
           PlannerErrorOf("ServiceUnavailable",
                          <<"Circuit breaker is half-open and at capacity">>)
      [] OTHER -> NoError

\* the Err of execute when f returned Err(e)
ExecuteError(e) ==
    PlannerErrorOf("ServiceUnavailable", <<"Service call failed: ">> \o Display(e))

\* errors of the protected operation: those of LaVagueClient (client.rs:80-107,
\* 121-122), of the actor's timeout (actor.rs:98-107), of input validation,
\* and of a protected operation that is itself behind an open breaker
DownstreamErrors ==
    { PlannerErrorOf("Timeout", <<>>),
      PlannerErrorOf("Network", <<"Network error: ", "connect">>),
      PlannerErrorOf("ServiceUnavailable", <<"Service unavailable: ", "503">>),
      PlannerErrorOf("ServiceUnavailable", <<"Circuit breaker is open">>),
      PlannerErrorOf("RateLimited", <<>>),
      PlannerErrorOf("Authentication", <<"Authentication failed: ", "401">>),
      PlannerErrorOf("InvalidResponse", <<"Failed to parse response: ", "eof">>),
      PlannerErrorOf("SecurityError", <<"Invalid objective">>) }

DownstreamResults == {OkResult} \cup DownstreamErrors

\* CircuitProtected::execute up to the await of f(&self.inner), the error of
\* a rejection being returned by the ? operator as allow_request gave it
ExecuteAllow(c) ==
    /\ pc[c] = "idle"
    /\ \E r \in AllowResults :
         /\ allow_request(r)
         /\ IF r = "Ok"
            THEN /\ pc' = [pc EXCEPT ![c] = "running"]
                 /\ UNCHANGED rejected_with
            ELSE /\ pc' = pc
                 /\ rejected_with' = AllowRequestError(r)
    /\ UNCHANGED <<failed_with, downstream>>
    /\ UNCHANGED <<configVars, now, observerVars, envVars, plannerVars,
                   planCacheVars, feedbackVars, serviceVars>>

\* CircuitProtected::execute from the completion of f with result res
ExecuteReturn(c, res) ==
    /\ pc[c] = "running"
    /\ IF res = OkResult
       THEN /\ on_success
            /\ UNCHANGED failed_with
       ELSE /\ on_failure
            /\ failed_with' = ExecuteError(res)
    /\ downstream' = res
    /\ pc' = [pc EXCEPT ![c] = "idle"]
    /\ UNCHANGED rejected_with
    /\ UNCHANGED <<configVars, now, observerVars, envVars, plannerVars,
                   planCacheVars, feedbackVars, serviceVars>>

InitExecute == InitCircuit

NextExecute ==
    \/ Tick
    \/ \E c \in Callers : ExecuteAllow(c)
    \/ \E c \in Callers : \E res \in DownstreamResults : ExecuteReturn(c, res)

SpecExecute == InitExecute /\ [][NextExecute]_vars

(***************************************************************************)
(* Properties of the errors of the breaker.                                *)
(***************************************************************************)
\* what a caller can match on: the variant of the PlannerError
Distinguishable(e1, e2) == e1.kind # e2.kind

\* C11: the error returned when the breaker rejects a call is
\* distinguishable from the error returned when the protected operation
\* itself failed.
C11_RejectionDistinguishable ==
    (rejected_with # NoError /\ failed_with # NoError)
        => Distinguishable(rejected_with, failed_with)

\* the step in which execute reports the result of the protected operation
ReturnStep == \E c \in Callers : pc[c] = "running" /\ pc'[c] = "idle"

CountedKinds == {"Timeout", "Network", "ServiceUnavailable", "RateLimited"}

\* C12: only failures of kind Timeout, NetworkError, ServiceUnavailable or
\* RateLimited increment the failure counter; a failure of any other kind
\* (Authentication, InvalidResponse, validation) leaves it unchanged.
C12_OnlyTransientFailuresCount ==
    [][ /\ (ReturnStep /\ downstream' # OkResult
                    /\ downstream'.kind \notin CountedKinds)
              => failure_counter' = failure_counter
        /\ failure_counter' > failure_counter
              => (ReturnStep /\ downstream'.kind \in CountedKinds) ]_vars

(***************************************************************************)
(* Actions of the plan cache specification: calls of insert, get,          *)
(* clear_old_entries and clear on one PlanCache, and the passing of time.  *)
(***************************************************************************)
CacheKeys == { <<"objective1">>, <<"objective2">>, <<"objective3">> }
TaskVersions == {"a", "b"}

\* create_test_task
CacheTask(k, v) == [id |-> <<"task", k, v>>, objective |-> k, subtasks |-> <<>>]

CacheInsert ==
    /\ inserts < MaxInserts
    /\ \E k \in CacheKeys : \E v \in TaskVersions :
         /\ cache' = PlanCacheInsert(cache, k, CacheTask(k, v), now)
         /\ last_op' = [op |-> "insert", key |-> k, task |-> CacheTask(k, v),
                        present |-> k \in DOMAIN cache.cache,
                        full |-> PlanCacheLen(cache) >= cache.capacity]
         /\ stamp' = [x \in DOMAIN cache'.cache |->
                        IF x = k THEN inserts + 1 ELSE stamp[x]]
    /\ inserts' = inserts + 1
    /\ UNCHANGED <<got, errorVars, feedbackVars, serviceVars>>
    /\ UNCHANGED <<circuitVars, configVars, now, pc, observerVars, envVars,
                   calls, outcome, first_ok, remote_failed_at>>

CacheGet ==
    /\ \E k \in CacheKeys :
         /\ got' = PlanCacheGet(cache, k)
         /\ last_op' = [NoOp EXCEPT !.op = "get", !.key = k]
    /\ UNCHANGED <<cache, inserts, stamp, errorVars, feedbackVars, serviceVars>>
    /\ UNCHANGED <<circuitVars, configVars, now, pc, observerVars, envVars,
                   calls, outcome, first_ok, remote_failed_at>>

CacheClearOld ==
    /\ \E max_age \in 0..MaxAge :
         cache' = PlanCacheClearOld(cache, max_age, now)
    /\ last_op' = [NoOp EXCEPT !.op = "clear_old_entries"]
    /\ stamp' = [x \in DOMAIN cache'.cache |-> stamp[x]]
    /\ UNCHANGED <<got, inserts, errorVars, feedbackVars, serviceVars>>
    /\ UNCHANGED <<circuitVars, configVars, now, pc, observerVars, envVars,
                   calls, outcome, first_ok, remote_failed_at>>

CacheClear ==
    /\ cache' = PlanCacheClear(cache)
    /\ last_op' = [NoOp EXCEPT !.op = "clear"]
    /\ stamp' = <<>>
    /\ UNCHANGED <<got, inserts, errorVars, feedbackVars, serviceVars>>
    /\ UNCHANGED <<circuitVars, configVars, now, pc, observerVars, envVars,
                   calls, outcome, first_ok, remote_failed_at>>

\* chrono::Utc::now() moving on between the calls
CacheElapse ==
    /\ now < MaxCacheTime
    /\ now' = now + 1
    /\ UNCHANGED <<circuitVars, configVars, pc, observerVars, envVars, plannerVars,
                   componentVars>>

InitCache ==
    /\ CircuitNew
    /\ failure_threshold = 1
    /\ reset_timeout_ms = 1
    /\ half_open_limit = 1
    /\ now = 0
    /\ pc = [c \in Callers |-> "idle"]
    /\ allow_result = None
    /\ consecutive_failures = 0
    /\ probes_admitted = 0
    /\ exec = [c \in Callers |-> ExecIdle]
    /\ mode = "Hybrid"
    /\ enable_cache = TRUE
    /\ feedback_enabled = FALSE
    /\ endpoint_set = TRUE
    /\ \E capacity \in 0..MaxCapacity : cache = PlanCacheNew(capacity)
    /\ calls = 0
    /\ outcome = NoOutcome
    /\ first_ok = NoFirstOk
    /\ remote_failed_at = NoInstant
    /\ ComponentsIdle

NextCache ==
    \/ CacheElapse
    \/ CacheInsert
    \/ CacheGet
    \/ CacheClearOld
    \/ CacheClear

SpecCache == InitCache /\ [][NextCache]_vars

(***************************************************************************)
(* Properties of the plan cache.                                           *)
(***************************************************************************)
\* C13: after any sequence of insert, get, clear_old_entries and clear, the
\* number of cached entries is at most the capacity.
C13_LenAtMostCapacity == PlanCacheLen(cache) <= cache.capacity

\* an insert of a new key into a full cache has just evicted an entry and
\* left the cache full
C13_Witness ==
    /\ last_op.op = "insert"
    /\ last_op.full
    /\ ~last_op.present
    /\ cache.capacity = MaxCapacity
    /\ PlanCacheLen(cache) = cache.capacity

\* the cached key whose most recent insert is the oldest
OldestInserted(c) ==
    CHOOSE x \in DOMAIN c.cache : \A y \in DOMAIN c.cache : stamp[x] <= stamp[y]

\* the step is an insert call
InsertStep == inserts' = inserts + 1

\* C14: an insert of an absent key into a full cache removes exactly one
\* entry, the one whose most recent insert is the oldest, whatever get calls
\* were made since; every other entry stays retrievable with its value.
C14_EvictsOldestInserted ==
    [][ (/\ InsertStep
         /\ last_op'.key \notin DOMAIN cache.cache
         /\ PlanCacheLen(cache) >= cache.capacity)
        => /\ DOMAIN cache'.cache =
                ((DOMAIN cache.cache) \ {OldestInserted(cache)}) \cup {last_op'.key}
           /\ \A j \in (DOMAIN cache.cache) \ {OldestInserted(cache)} :
                /\ PlanCacheGet(cache', j).some
                /\ PlanCacheGet(cache', j) = PlanCacheGet(cache, j) ]_vars

\* an insert into a full cache of two entries has evicted the key that the
\* last get had just found, and kept the other one
C14_Witness ==
    /\ last_op.op = "insert"
    /\ last_op.full
    /\ ~last_op.present
    /\ cache.capacity >= 2
    /\ got.some
    /\ got.task.objective \notin DOMAIN cache.cache
    /\ got.task.objective # last_op.key

\* position of key k in the eviction order of c
Position(c, k) == CHOOSE i \in 1..Len(c.keys_order) : c.keys_order[i] = k

\* C15: an insert of a key already present evicts nothing, replaces the
\* value of that key, and makes the key the newest in eviction order, behind
\* every entry present at that moment.
C15_ReinsertMovesToNewest ==
    [][ (InsertStep /\ last_op'.key \in DOMAIN cache.cache)
        => /\ DOMAIN cache'.cache = DOMAIN cache.cache
           /\ PlanCacheGet(cache', last_op'.key) =
                [some |-> TRUE, task |-> last_op'.task]
           /\ \A j \in (DOMAIN cache.cache) \ {last_op'.key} :
                /\ PlanCacheGet(cache', j) = PlanCacheGet(cache, j)
                /\ Position(cache', j) < Position(cache', last_op'.key) ]_vars

\* a key of a full cache of at least two entries has been inserted again
\* with another value and is now the last in eviction order
C15_Witness ==
    /\ last_op.op = "insert"
    /\ last_op.present
    /\ last_op.full
    /\ PlanCacheLen(cache) >= 2
    /\ last_op.task = CacheTask(last_op.key, "b")
    /\ cache.keys_order[Len(cache.keys_order)] = last_op.key
    /\ stamp[last_op.key] >= 3

(***************************************************************************)
(* Feedback collector in batched mode (feedback.rs).  A trace is its       *)
(* task_id, subtask_id and status; strings are sequences of their pieces.  *)
(***************************************************************************)
ExecutionTraceOf(task_id, subtask_id, status) ==
    [task_id |-> task_id, subtask_id |-> subtask_id, status |-> status]

\* the traces reported: two reports on the same subtask and one on another task
Traces ==
    { ExecutionTraceOf(<<"task_1">>, <<"sub_1">>, "Failed"),
      ExecutionTraceOf(<<"task_1">>, <<"sub_1">>, "Completed"),
      ExecutionTraceOf(<<"task_2">>, <<"sub_1">>, "Completed") }

\* format!("{}-{}", trace.task_id, trace.subtask_id)
TraceId(trace) == trace.task_id \o <<"-">> \o trace.subtask_id

\* format!("failed_trace_{}.json", trace_id)
FailedTraceFile(trace_id) == <<"failed_trace_">> \o trace_id \o <<".json">>

\* serde_json::to_string_pretty(&trace)
ToJson(trace) == <<"task_id", trace.task_id, "subtask_id", trace.subtask_id,
                   "status", trace.status>>

\* serde_json::from_str::<ExecutionTrace>(&content)
FromJson(json) == ExecutionTraceOf(json[2], json[4], json[6])

\* number of occurrences of x in seq
Count(seq, x) == Cardinality({i \in 1..Len(seq) : seq[i] = x})

\* variant of BatchFull: the flush waits for one trace more
BatchFullStrict(len) == len > batch_size

\* pending.read().await.len() >= config.batch_size
BatchFull(len) == len >= batch_size

\* variant of ShouldRetry: one retry more
ShouldRetryOnceMore(count) == count <= max_retries

\* count < config.max_retries
ShouldRetry(count) == count < max_retries

\* *retry_counts.entry(trace_id).or_insert(0) + 1
NextRetryCount(trace_id) ==
    IF trace_id \in DOMAIN retry_counts THEN retry_counts[trace_id] + 1 ELSE 1

\* std::mem::take(&mut *pending) at the start of flush_pending_traces
FlushTake(taken) ==
    /\ flush_traces' = taken
    /\ pending' = <<>>

\* an action that makes no call of submit_feedback
NoCall == [fb_obs EXCEPT !.calls_in_step = 0, !.last_call = NoTrace,
                         !.at_startup = FALSE]

NonFeedbackUnchanged ==
    UNCHANGED <<circuitVars, configVars, now, pc, observerVars, envVars,
                plannerVars, errorVars, planCacheVars, serviceVars>>

\* FeedbackCollector::submit with batch_enabled
FbSubmit ==
    /\ ~collector_dropped
    /\ fb_obs.submitted < MaxSubmits
    /\ \E trace \in Traces :
         submission_rx' = Append(submission_rx, trace)
    /\ fb_obs' = [NoCall EXCEPT !.submitted = @ + 1]
    /\ UNCHANGED <<feedbackConfigVars, pending, retry_counts, failed,
                   feedback_dir, flush_traces, resubmitVars>>
    /\ NonFeedbackUnchanged

\* process_feedback_queue, the submission_rx.recv() arm
FbRecv ==
    /\ ~processor_exited
    /\ flush_traces = <<>>
    /\ submission_rx # <<>>
    /\ submission_rx' = Tail(submission_rx)
    /\ LET pushed == Append(pending, Head(submission_rx))
       IN  IF BatchFull(Len(pushed))
           THEN /\ FlushTake(pushed)
                /\ fb_obs' = [NoCall EXCEPT !.trigger = "batch_size"]
           ELSE /\ pending' = pushed
                /\ UNCHANGED flush_traces
                /\ fb_obs' = NoCall
    /\ UNCHANGED <<feedbackConfigVars, retry_counts, failed, feedback_dir,
                   resubmitVars>>
    /\ NonFeedbackUnchanged

\* process_feedback_queue, the flush_interval.tick() arm
FbTick ==
    /\ ~processor_exited
    /\ flush_traces = <<>>
    /\ pending # <<>>
    /\ FlushTake(pending)
    /\ fb_obs' = [NoCall EXCEPT !.trigger = "interval"]
    /\ UNCHANGED <<feedbackConfigVars, submission_rx, retry_counts, failed,
                   feedback_dir, resubmitVars>>
    /\ NonFeedbackUnchanged

\* failed.write().await.push(trace.clone())
FailedAfterFlush(trace) == Append(failed, trace)

\* flush_pending_traces, one turn of its loop: ok is the answer of
\* client.submit_feedback
FbFlushOne(ok) ==
    /\ flush_traces # <<>>
    /\ LET trace == Head(flush_traces)
           trace_id == TraceId(trace)
           count == NextRetryCount(trace_id)
           exhausted == ~ok /\ ~ShouldRetry(count)
       IN  /\ flush_traces' = Tail(flush_traces)
           /\ retry_counts' =
                IF ok THEN MapRemove(retry_counts, trace_id)
                ELSE MapInsert(retry_counts, trace_id, count)
           /\ pending' = IF ~ok /\ ShouldRetry(count)
                         THEN Append(pending, trace) ELSE pending
           /\ failed' = IF exhausted THEN FailedAfterFlush(trace) ELSE failed
           /\ feedback_dir' =
                IF exhausted
                THEN MapInsert(feedback_dir, FailedTraceFile(trace_id), ToJson(trace))
                ELSE feedback_dir
           /\ fb_obs' = [fb_obs EXCEPT
                !.calls_in_step = 1,
                !.last_call = trace,
                !.at_startup = FALSE,
                !.accepted = @ \/ ok,
                !.flush_attempts = IF @ <= max_retries THEN @ + 1 ELSE @,
                !.persisted = IF exhausted THEN @ \cup {trace} ELSE @,
                !.added_during = IF exhausted /\ resubmit_pc = "running"
                                 THEN Append(@, trace) ELSE @]
    /\ UNCHANGED <<feedbackConfigVars, submission_rx, resubmitVars>>
    /\ NonFeedbackUnchanged

\* resubmit_failed up to its loop: std::mem::take of failed, Ok(0) if empty
FbResubmitBegin ==
    /\ resubmit_pc = "idle"
    /\ failed' = <<>>
    /\ IF failed = <<>>
       THEN UNCHANGED resubmitVars
       ELSE /\ resubmit_pc' = "running"
            /\ resubmit_traces' = failed
            /\ success_count' = 0
    /\ fb_obs' = [NoCall EXCEPT !.other_calls = TRUE,
                                !.resub_taken = failed,
                                !.resub_results = <<>>,
                                !.added_during = <<>>]
    /\ UNCHANGED <<feedbackConfigVars, submission_rx, pending, retry_counts,
                   feedback_dir, flush_traces>>
    /\ NonFeedbackUnchanged

\* variant of FailedAfterResubmit: a trace that fails again is dropped
FailedAfterResubmitDrop(trace, ok) == failed

\* self.failed.write().await.push(trace) when the resubmission failed
FailedAfterResubmit(trace, ok) == IF ok THEN failed ELSE Append(failed, trace)

\* resubmit_failed, one turn of its loop
FbResubmitOne(ok) ==
    /\ resubmit_pc = "running"
    /\ resubmit_traces # <<>>
    /\ LET trace == Head(resubmit_traces)
       IN  /\ resubmit_traces' = Tail(resubmit_traces)
           /\ success_count' = IF ok THEN success_count + 1 ELSE success_count
           /\ failed' = FailedAfterResubmit(trace, ok)
           /\ fb_obs' = [fb_obs EXCEPT
                !.calls_in_step = 1,
                !.last_call = trace,
                !.at_startup = FALSE,
                !.resub_results = Append(@, [trace |-> trace, ok |-> ok]),
                !.delivered = IF ok THEN @ \cup {trace} ELSE @]
    /\ UNCHANGED resubmit_pc
    /\ UNCHANGED <<feedbackConfigVars, submission_rx, pending, retry_counts,
                   feedback_dir, flush_traces>>
    /\ NonFeedbackUnchanged

\* resubmit_failed: Ok(success_count)
FbResubmitEnd ==
    /\ resubmit_pc = "running"
    /\ resubmit_traces = <<>>
    /\ resubmit_pc' = "idle"
    /\ success_count' = 0
    /\ fb_obs' = [NoCall EXCEPT !.resub_taken = <<>>,
                                !.resub_results = <<>>,
                                !.added_during = <<>>]
    /\ UNCHANGED resubmit_traces
    /\ UNCHANGED <<feedbackConfigVars, collectorVars, feedback_dir, flush_traces>>
    /\ NonFeedbackUnchanged

\* the orders in which read_dir can yield the files of S
Orders(S) ==
    {o \in [1..Cardinality(S) -> S] : \A i, j \in DOMAIN o : i # j => o[i] # o[j]}

\* FeedbackCollector::load_failed_from_disk
FbLoadFailedFromDisk ==
    /\ fb_obs.loads < MaxLoads
    /\ \E order \in Orders(DOMAIN feedback_dir) :
         LET loaded == [i \in DOMAIN order |-> FromJson(feedback_dir[order[i]])]
         IN  /\ failed' = failed \o loaded
             /\ fb_obs' = [fb_obs EXCEPT
                  !.calls_in_step = 0,
                  !.last_call = NoTrace,
                  !.at_startup = FALSE,
                  !.other_calls = TRUE,
                  !.loads = @ + 1,
                  !.added_during = IF resubmit_pc = "running"
                                   THEN @ \o loaded ELSE @]
    /\ UNCHANGED <<feedbackConfigVars, submission_rx, pending, retry_counts,
                   feedback_dir, flush_traces, resubmitVars>>
    /\ NonFeedbackUnchanged

\* the process ends and FeedbackCollector::new runs again on the same
\* feedback_dir
FbRestart ==
    /\ fb_obs.restarts < MaxRestarts
    /\ submission_rx' = <<>>
    /\ pending' = <<>>
    /\ retry_counts' = <<>>
    /\ failed' = <<>>
    /\ flush_traces' = <<>>
    /\ resubmit_pc' = "idle"
    /\ resubmit_traces' = <<>>
    /\ success_count' = 0
    /\ fb_obs' = [fb_obs EXCEPT
         !.calls_in_step = 0,
         !.last_call = NoTrace,
         !.other_calls = TRUE,
         !.at_startup = TRUE,
         !.loads = 0,
         !.restarts = @ + 1,
         !.persisted_before = fb_obs.persisted,
         !.resub_taken = <<>>,
         !.resub_results = <<>>,
         !.added_during = <<>>]
    /\ UNCHANGED <<feedbackConfigVars, feedback_dir>>
    /\ NonFeedbackUnchanged

InitFeedback ==
    /\ CircuitNew
    /\ failure_threshold = 1
    /\ reset_timeout_ms = 1
    /\ half_open_limit = 1
    /\ now = 0
    /\ pc = [c \in Callers |-> "idle"]
    /\ allow_result = None
    /\ consecutive_failures = 0
    /\ probes_admitted = 0
    /\ exec = [c \in Callers |-> ExecIdle]
    /\ PlannerIdle
    /\ ErrorsIdle
    /\ PlanCacheIdle
    /\ batch_size \in 1..MaxBatchSize
    /\ max_retries \in 1..MaxRetries
    /\ FeedbackCollectorNew
    /\ feedback_dir = <<>>
    /\ fb_obs = NoObservation
    /\ ServicesIdle

NextFeedback ==
    \/ FbSubmit
    \/ FbRecv
    \/ FbTick
    \/ \E ok \in BOOLEAN : FbFlushOne(ok)
    \/ FbResubmitBegin
    \/ \E ok \in BOOLEAN : FbResubmitOne(ok)
    \/ FbResubmitEnd

SpecFeedback == InitFeedback /\ [][NextFeedback]_vars

\* the collector over the life of several processes sharing feedback_dir
NextFeedbackRestart ==
    \/ FbSubmit
    \/ FbRecv
    \/ FbTick
    \/ \E ok \in BOOLEAN : FbFlushOne(ok)
    \/ FbResubmitBegin
    \/ \E ok \in BOOLEAN : FbResubmitOne(ok)
    \/ FbResubmitEnd
    \/ FbLoadFailedFromDisk
    \/ FbRestart

SpecFeedbackRestart == InitFeedback /\ [][NextFeedbackRestart]_vars

(***************************************************************************)
(* Properties of the feedback collector.                                   *)
(***************************************************************************)
\* one trace has been submitted, the service has rejected every submission,
\* and neither resubmit_failed nor load_failed_from_disk has been called
SingleRejectedTrace ==
    /\ fb_obs.submitted = 1
    /\ ~fb_obs.accepted
    /\ ~fb_obs.other_calls

\* C16: with max_retries = M >= 1 and a service that rejects every
\* submission, a single trace submitted in batched mode is attempted exactly
\* M times, is then in the failed set with exactly one failed_trace file
\* written, and from then on failed_count = 1 and pending_count = 0.
C16_SingleTraceFailsAfterMaxRetries ==
    SingleRejectedTrace =>
        /\ fb_obs.flush_attempts <= max_retries
        /\ fb_obs.flush_attempts < max_retries =>
             /\ failed = <<>>
             /\ feedback_dir = <<>>
        /\ fb_obs.flush_attempts = max_retries =>
             /\ Len(failed) = 1
             /\ DOMAIN feedback_dir = {FailedTraceFile(TraceId(failed[1]))}
             /\ Len(pending) = 0
             /\ flush_traces = <<>>
             /\ submission_rx = <<>>

\* the single trace has been rejected MaxRetries times and is in the failed set
C16_Witness ==
    /\ SingleRejectedTrace
    /\ max_retries = MaxRetries
    /\ fb_obs.flush_attempts = MaxRetries
    /\ Len(failed) = 1
    /\ pending = <<>>

\* the trace ids of the traces of seq
IdsOf(seq) == {TraceId(seq[i]) : i \in 1..Len(seq)}

\* C17: the retry-counter map never holds the key of a trace that is in the
\* failed set and no longer pending.
C17_FailedTraceHasNoRetryCount ==
    \A id \in IdsOf(failed) :
        id \notin IdsOf(pending) \cup IdsOf(flush_traces) \cup IdsOf(submission_rx)
            => id \notin DOMAIN retry_counts

\* the step takes a trace from the submission channel
RecvStep == Len(submission_rx') < Len(submission_rx)

\* the step hands a trace of the running flush to the service
FlushOneStep == Len(flush_traces') < Len(flush_traces)

ResubmitEndStep == resubmit_pc = "running" /\ resubmit_pc' = "idle"

\* the traces of a resubmit_failed call whose resubmission had the result ok
Resubmitted(ok) ==
    {i \in 1..Len(fb_obs.resub_results) : fb_obs.resub_results[i].ok = ok}

\* C19: resubmit_failed submits each trace of the failed set exactly once;
\* afterwards the failed set holds exactly the traces whose resubmission
\* failed, plus any added concurrently, and the count returned is the number
\* of traces delivered.
C19_ResubmitFailedOnce ==
    [][ ResubmitEndStep =>
          /\ [i \in 1..Len(fb_obs.resub_results) |-> fb_obs.resub_results[i].trace]
                = fb_obs.resub_taken
          /\ success_count = Cardinality(Resubmitted(TRUE))
          /\ \A t \in Traces :
               Count(failed', t) =
                   Cardinality({i \in Resubmitted(FALSE) :
                                   fb_obs.resub_results[i].trace = t})
                   + Count(fb_obs.added_during, t) ]_vars

\* a resubmit_failed call is about to return after one resubmission failed
\* while a flush moved another trace to the failed set
C19_Witness ==
    /\ resubmit_pc = "running"
    /\ resubmit_traces = <<>>
    /\ fb_obs.resub_taken # <<>>
    /\ Resubmitted(FALSE) # {}
    /\ fb_obs.added_during # <<>>
    /\ Len(failed) >= 2

\* C20: after a restart, load_failed_from_disk makes the failed set contain
\* every trace that was moved to the failed store and persisted before the
\* restart, one entry per such trace.
C20_LoadRestoresEveryFailedTrace ==
    [][ (fb_obs.at_startup /\ fb_obs'.loads = fb_obs.loads + 1)
          => \A t \in fb_obs.persisted_before : Count(failed', t) = 1 ]_vars

\* resubmit_failed delivers trace: the service accepts its resubmission
Delivers(trace) ==
    /\ resubmit_pc = "running"
    /\ resubmit_traces # <<>>
    /\ Head(resubmit_traces) = trace
    /\ Len(fb_obs'.resub_results) = Len(fb_obs.resub_results) + 1
    /\ fb_obs'.resub_results[Len(fb_obs'.resub_results)].ok

\* C39: a failed trace that resubmit_failed has delivered successfully is
\* never delivered again, a later load_failed_from_disk followed by
\* resubmit_failed included: when one trace only has been submitted, a call
\* of resubmit_failed that took one trace from the failed set does not
\* deliver a trace that an earlier call has delivered.
C39_DeliveredOnce ==
    [][\A t \in Traces :
         (/\ fb_obs.submitted = 1
          /\ Len(fb_obs.resub_taken) = 1
          /\ Delivers(t))
         => t \notin fb_obs.delivered]_vars

(***************************************************************************)
(* Validation of a request (security.rs:236-266) and the calls of          *)
(* decompose_task on requests that validation rejects.                     *)
(***************************************************************************)
MaxObjectiveLen == 1000
MaxContextKeys == 100
MaxKeyLen == 100

\* str::len of a word or of a context key, in bytes
StrLen(w) ==
    CASE w = "" -> 0
      [] w = "X" -> 1
      [] w = "url" -> 3
      [] w = "x.repeat(2000)" -> 2000
      [] w = "k.repeat(101)" -> 101
      [] OTHER -> 5

RECURSIVE ObjectiveLen(_)
\* str::len of an objective: its words and the spaces between them
ObjectiveLen(objective) ==
    IF objective = <<>> THEN 0
    ELSE IF Len(objective) = 1 THEN StrLen(objective[1])
    ELSE StrLen(objective[1]) + 1 + ObjectiveLen(Tail(objective))

\* DataSanitizer::validate_objective
validate_objective(objective) ==
    IF ObjectiveLen(objective) = 0
    THEN [ok |-> FALSE, error |-> "Objective cannot be empty"]
    ELSE IF ObjectiveLen(objective) > MaxObjectiveLen
    THEN [ok |-> FALSE, error |-> "Objective is too long (max 1000 characters)"]
    ELSE [ok |-> TRUE, error |-> None]

\* DataSanitizer::validate_context_keys
validate_context_keys(keys) ==
    IF Cardinality(keys) > MaxContextKeys
    THEN [ok |-> FALSE, error |-> "Too many context keys (max 100)"]
    ELSE IF \E k \in keys : StrLen(k) = 0
    THEN [ok |-> FALSE, error |-> "Context key cannot be empty"]
    ELSE IF \E k \in keys : StrLen(k) > MaxKeyLen
    THEN [ok |-> FALSE, error |-> "Context key is too long (max 100 characters)"]
    ELSE [ok |-> TRUE, error |-> None]

\* the empty objective and "x".repeat(2000)
InvalidObjectives == { <<>>, <<"x.repeat(2000)">> }
\* an empty key and a key of 101 bytes
InvalidKeySets == { {""}, {"url", "k.repeat(101)"} }

\* decompose_task on any request, valid or not
DecomposeRequest ==
    DecomposeTaskOn({<<"X">>, <<"Scrape", "then", "save">>} \cup InvalidObjectives,
                    {{"url"}} \cup InvalidKeySets)

NextRequests ==
    \/ Elapse
    \/ DecomposeRequest

SpecRequests == InitPlanner /\ [][NextRequests]_vars

\* C23: a decompose request whose objective is empty or longer than 1000
\* characters, or whose context keys include an empty or over-100-character
\* key, fails with a validation error and makes no remote call.
C23_InvalidRequestRejected ==
    (/\ calls > 0
     /\ \/ ~validate_objective(outcome.objective).ok
        \/ ~validate_context_keys(outcome.context_keys).ok)
    => (/\ ~outcome.ok
        /\ outcome.error \in
              { validate_objective(outcome.objective).error,
                validate_context_keys(outcome.context_keys).error }
        /\ outcome.remote_invocations = 0)

(***************************************************************************)
(* The fallback planner: rule files are loaded, capabilities are           *)
(* discovered, and plans are generated.                                    *)
(***************************************************************************)
MaxRuleLoads == 1
MaxPlans == 2

\* the objectives of test_rule_matching (fallback.rs:421-437)
FallbackObjectives ==
    { <<"Do", "something">>,
      <<"Scrape", "website", "data">>,
      <<"Process", "and", "analyze", "text">>,
      <<"Save", "data", "to", "database">> }

FallbackContexts == { {}, {"target_url"} }

\* the agent types of the capabilities a discovery can find
CapabilitySets == { {"Process"}, {"Scrape", "Process", "Data"} }

NonFallbackUnchanged ==
    UNCHANGED <<circuitVars, configVars, now, pc, observerVars, envVars,
                plannerVars, errorVars, planCacheVars, feedbackVars,
                actorVars, validateVars, lockVars, localVars>>

\* FallbackPlanner::load_rules
LoadRules ==
    /\ Len(rules) < Len(default_rules) + MaxRuleLoads
    /\ \E file \in RuleFiles : rules' = load_rules(rules, file)
    /\ UNCHANGED <<capabilities, generated>>
    /\ NonFallbackUnchanged

\* CapabilityDiscovery::discover finding agents
Discover ==
    /\ capabilities = {}
    /\ \E found \in CapabilitySets : capabilities' = found
    /\ UNCHANGED <<rules, generated>>
    /\ NonFallbackUnchanged

\* FallbackPlanner::generate_plan
GeneratePlan ==
    /\ generated.called < MaxPlans
    /\ \E objective \in FallbackObjectives :
       \E context_keys \in FallbackContexts :
       \E r \in {generate_plan(generated.called + 1, rules, capabilities,
                               objective, context_keys)} :
          generated' = [called |-> generated.called + 1,
                        objective |-> objective,
                        context_keys |-> context_keys,
                        matched |-> r.matched,
                        ok |-> r.ok,
                        subtasks |-> r.task.subtasks]
    /\ UNCHANGED <<rules, capabilities>>
    /\ NonFallbackUnchanged

InitFallback == InitComponents

NextFallback ==
    \/ LoadRules
    \/ Discover
    \/ GeneratePlan

SpecFallback == InitFallback /\ [][NextFallback]_vars

\* C26: for every objective, rule matching returns a non-empty rule list.
C26_MatchRulesNeverEmpty ==
    generated.called > 0 => generated.matched # <<>>

\* a keyword of some rule occurs in the objective
MatchesARule(objective) ==
    \E i \in 1..Len(rules) :
        \E k \in rules[i].keywords : Contains(objective, k)

\* C27: when capability discovery supplies no capabilities, generate_plan
\* returns a plan with at least one subtask for an objective that matches a
\* rule.
C27_PlanWithoutCapabilities ==
    (/\ generated.called > 0
     /\ capabilities = {}
     /\ MatchesARule(generated.objective))
    => (generated.ok /\ Len(generated.subtasks) >= 1)

\* C28: for any rule set and any objective, the subtasks produced have an
\* acyclic dependency relation and every dependency id names a subtask of
\* the same plan.
C28_FallbackPlanAcyclicAndClosed ==
    generated.called > 0 =>
        \A i \in 1..Len(generated.subtasks) :
            /\ \A j \in 1..Len(generated.subtasks[i].dependencies) :
                 \E k \in 1..Len(generated.subtasks) :
                     generated.subtasks[k].id =
                         generated.subtasks[i].dependencies[j]
            /\ i \notin ReachableIn(generated.subtasks,
                                    DependsOn(generated.subtasks, i),
                                    Len(generated.subtasks))

(***************************************************************************)
(* The LaVague client (client.rs:62-125): what one request returns for     *)
(* each outcome of the transport.                                          *)
(***************************************************************************)
Statuses == {200, 204, 400, 401, 403, 404, 429, 500, 502, 503}

\* send() failing on the request timeout or on the connection, or a response
\* with a status and a body that is a Task or is not
TransportOutcomes ==
    { [kind |-> "timeout"], [kind |-> "connect"] } \cup
    { [kind |-> "status", status |-> st, body |-> b] :
        st \in Statuses, b \in {"task", "garbage"} }

\* StatusCode::is_success
is_success(status) == status \in 200..299

\* LaVagueClient::make_request: OkResult stands for Ok(resp)
make_request(t) ==
    CASE t.kind = "timeout" ->
           PlannerErrorOf("Other", <<"Request timed out: ", "timeout">>)
      [] t.kind = "connect" ->
           PlannerErrorOf("Network", <<"Network error: ", "connect">>)
      [] t.kind = "status" /\ is_success(t.status) -> OkResult
      [] t.kind = "status" /\ t.status \in {401, 403} ->
           PlannerErrorOf("Authentication",
                          <<"Authentication failed: ", t.status>>)
      [] t.kind = "status" /\ t.status = 429 -> PlannerErrorOf("RateLimited", <<>>)
      [] t.kind = "status" /\ t.status \in {502, 503} ->
           PlannerErrorOf("ServiceUnavailable",
                          <<"Service unavailable: ", t.status>>)
      [] OTHER ->
           PlannerErrorOf("InvalidResponse",
                          <<"Unexpected status code: ", t.status>>)

\* LaVagueClient::decompose_task: OkResult stands for Ok(task)
client_decompose_task(t) ==
    LET resp == make_request(t)
    IN  IF resp # OkResult THEN resp
        ELSE IF t.body = "task" THEN OkResult
        ELSE PlannerErrorOf("InvalidResponse",
                            <<"Failed to parse response: ", t.body>>)

\* LaVagueClient::submit_feedback
client_submit_feedback(t) ==
    LET resp == make_request(t)
    IN  IF resp # OkResult THEN resp
        ELSE IF is_success(t.status) THEN OkResult
        ELSE PlannerErrorOf("InvalidResponse",
                            <<"Failed to submit feedback: ", t.status>>)

MaxRequests == 3

NonActorUnchanged ==
    UNCHANGED <<circuitVars, configVars, now, pc, observerVars, envVars,
                plannerVars, errorVars, planCacheVars, feedbackVars,
                fallbackVars, validateVars, lockVars, localVars>>

\* one request of the client, the transport answering with t
ClientRequest(op, t) ==
    /\ client_obs.requests < MaxRequests
    /\ client_obs' = [requests |-> client_obs.requests + 1,
                      op |-> op, transport |-> t,
                      result |-> IF op = "decompose_task"
                                 THEN client_decompose_task(t)
                                 ELSE client_submit_feedback(t)]
    /\ UNCHANGED <<send_waiters, mailbox, handling, apc, reply>>
    /\ NonActorUnchanged

ClientDecomposeTask == \E t \in TransportOutcomes : ClientRequest("decompose_task", t)

ClientSubmitFeedback == \E t \in TransportOutcomes : ClientRequest("submit_feedback", t)

InitClient == InitComponents

NextClient ==
    \/ ClientDecomposeTask
    \/ ClientSubmitFeedback

SpecClient == InitClient /\ [][NextClient]_vars

(***************************************************************************)
(* The LaVague actor (actor.rs:40-109, 146-169).  The channel is bounded;  *)
(* a sender that finds it full waits its turn in the order of arrival,     *)
(* and the actor handles one message at a time.                            *)
(***************************************************************************)
ChannelCapacity == 1

\* the timer of tokio::time::timeout runs while a message is handled
TimerNeverArmed(msg) == FALSE

TimerArmed(msg) == msg # NoMessage

\* what the client call of the actor returns when it completes: for a send
\* that times out or cannot connect, for a 200 and for a 503
RemoteResults ==
    { client_decompose_task(t) :
        t \in { [kind |-> "timeout"], [kind |-> "connect"],
                [kind |-> "status", status |-> 200, body |-> "task"],
                [kind |-> "status", status |-> 503, body |-> "task"] } }

\* PlannerActorSystem::decompose_task up to the call of send
ActorCall(c) ==
    /\ apc[c] = "idle"
    /\ apc' = [apc EXCEPT ![c] = "sending"]
    /\ send_waiters' = Append(send_waiters, c)
    /\ UNCHANGED <<mailbox, handling, reply, client_obs>>
    /\ NonActorUnchanged

\* the send of the first waiting sender completes once the channel has room
ActorSend ==
    /\ send_waiters # <<>>
    /\ Len(mailbox) < ChannelCapacity
    /\ mailbox' = Append(mailbox, [caller |-> Head(send_waiters)])
    /\ send_waiters' = Tail(send_waiters)
    /\ apc' = [apc EXCEPT ![Head(send_waiters)] = "waiting"]
    /\ UNCHANGED <<handling, reply, client_obs>>
    /\ NonActorUnchanged

\* the loop of spawn_actor receives the next message and handle starts the
\* client call under the timeout
ActorRecv ==
    /\ handling = NoMessage
    /\ mailbox # <<>>
    /\ handling' = Head(mailbox)
    /\ mailbox' = Tail(mailbox)
    /\ UNCHANGED <<send_waiters, apc, reply, client_obs>>
    /\ NonActorUnchanged

\* variant of SendReply: respond_to.send(result).unwrap(), the actor task
\* ends at the panic when the receiver has been dropped
SendReplyUnwrap(result) ==
    IF apc[handling.caller] = "dropped"
    THEN UNCHANGED <<reply, apc, handling>>
    ELSE /\ reply' = [reply EXCEPT ![handling.caller] = result]
         /\ apc' = [apc EXCEPT ![handling.caller] = "replied"]
         /\ handling' = NoMessage

\* let _ = respond_to.send(result): the result reaches the caller's receiver,
\* or is discarded when the receiver has been dropped; handle returns
SendReply(result) ==
    /\ IF apc[handling.caller] = "dropped"
       THEN /\ reply' = reply
            /\ apc' = [apc EXCEPT ![handling.caller] = "discarded"]
       ELSE /\ reply' = [reply EXCEPT ![handling.caller] = result]
            /\ apc' = [apc EXCEPT ![handling.caller] = "replied"]
    /\ handling' = NoMessage

\* the client call completes before the timeout and handle sends its result
HandleCompletes ==
    /\ handling # NoMessage
    /\ \E r \in RemoteResults : SendReply(r)
    /\ UNCHANGED <<send_waiters, mailbox, client_obs>>
    /\ NonActorUnchanged

\* the timeout elapses first and handle sends Err(PlannerError::Timeout)
HandleTimesOut ==
    /\ TimerArmed(handling)
    /\ SendReply(PlannerErrorOf("Timeout", <<>>))
    /\ UNCHANGED <<send_waiters, mailbox, client_obs>>
    /\ NonActorUnchanged

\* the caller's receiver yields the reply and decompose_task returns it
ActorReturn(c) ==
    /\ apc[c] = "replied"
    /\ apc' = [apc EXCEPT ![c] = "idle"]
    /\ UNCHANGED <<send_waiters, mailbox, handling, reply, client_obs>>
    /\ NonActorUnchanged

InitActor == InitComponents

NextActor ==
    \/ \E c \in Callers : ActorCall(c)
    \/ ActorSend
    \/ ActorRecv
    \/ HandleCompletes
    \/ HandleTimesOut
    \/ \E c \in Callers : ActorReturn(c)

SpecActor == InitActor /\ [][NextActor]_vars

\* the runtime keeps running the actor's task and the sends that have room,
\* and a timer that is armed fires; nothing makes the remote call complete
SpecActorFair ==
    /\ SpecActor
    /\ WF_vars(ActorSend)
    /\ WF_vars(ActorRecv)
    /\ WF_vars(HandleTimesOut)

\* a caller that waits for its reply gives up: the future of
\* PlannerActorSystem::decompose_task is dropped and its oneshot receiver
\* with it, the message staying where it is
ActorDrop(c) ==
    /\ apc[c] = "waiting"
    /\ apc' = [apc EXCEPT ![c] = "dropped"]
    /\ UNCHANGED <<send_waiters, mailbox, handling, reply, client_obs>>
    /\ NonActorUnchanged

NextActorDrop ==
    \/ \E c \in Callers : ActorCall(c)
    \/ ActorSend
    \/ ActorRecv
    \/ HandleCompletes
    \/ HandleTimesOut
    \/ \E c \in Callers : ActorReturn(c)
    \/ \E c \in Callers : ActorDrop(c)

SpecActorDrop == InitActor /\ [][NextActorDrop]_vars

\* the same scheduling as SpecActorFair; nothing makes a caller give up
SpecActorDropFair ==
    /\ SpecActorDrop
    /\ WF_vars(ActorSend)
    /\ WF_vars(ActorRecv)
    /\ WF_vars(HandleTimesOut)

\* the error kind the client is to return for a transport outcome, Ok for a
\* success
MappedKind(t) ==
    CASE t.kind = "timeout" -> "Timeout"
      [] t.kind = "connect" -> "Network"
      [] t.status \in {401, 403} -> "Authentication"
      [] t.status = 429 -> "RateLimited"
      [] t.status \in {502, 503} -> "ServiceUnavailable"
      [] is_success(t.status) /\ t.body = "task" -> "Ok"
      [] OTHER -> "InvalidResponse"

\* C24: the remote client maps a request timeout to Timeout, 401/403 to
\* Authentication, 429 to RateLimited, 502/503 to ServiceUnavailable, any
\* other non-2xx status or an undecodable body to InvalidResponse, a
\* connection failure to a network error, and only a 2xx response with a
\* decodable body to a success.
C24_TransportOutcomeToErrorKind ==
    (client_obs.requests > 0 /\ client_obs.op = "decompose_task") =>
        client_obs.result.kind = MappedKind(client_obs.transport)

\* C25: every caller of PlannerActorSystem::decompose_task eventually
\* receives a reply, and the reply is the result of the remote call or a
\* Timeout error.
C25_EveryCallerIsAnswered ==
    /\ \A c \in Callers : (apc[c] = "sending") ~> (apc[c] = "replied")
    /\ [](\A c \in Callers :
            apc[c] = "replied" =>
                reply[c] \in RemoteResults \cup {PlannerErrorOf("Timeout", <<>>)})

C25_Witness ==
    \E c \in Callers :
        /\ apc[c] = "replied"
        /\ reply[c].kind = "Timeout"
        /\ mailbox # <<>>

(***************************************************************************)
(* validate_plan (planner.rs:541-604) on the subtask lists of a bounded    *)
(* size, the identifiers of a list being distinct as uuids are.            *)
(***************************************************************************)
MaxSubtasks == 2
MaxDeps == 2

\* the identifier of the k-th subtask of a list; that of no subtask for k = 0
SubtaskId(k) == <<"subtask", k>>

RECURSIVE IdsInOrder(_)
\* the identifiers numbered by the set ks, as a Vec
IdsInOrder(ks) ==
    IF ks = {} THEN <<>>
    ELSE LET k == CHOOSE x \in ks : \A y \in ks : x <= y
         IN  <<SubtaskId(k)>> \o IdsInOrder(ks \ {k})

\* the lists of len subtasks, each depending on at most MaxDeps of the
\* subtasks of the list (itself included) and of the missing subtask 0
SubtaskListsOfLen(len) ==
    { [i \in 1..len |->
         [id |-> SubtaskId(i), required_agent |-> "Process",
          dependencies |-> IdsInOrder(deps[i])]] :
      deps \in [1..len -> { ks \in SUBSET (0..len) : Cardinality(ks) <= MaxDeps }] }

SubtaskLists == UNION { SubtaskListsOfLen(len) : len \in 0..MaxSubtasks }

\* validate_plan called on the list
ValidatePlan ==
    /\ validated = "none"
    /\ validated' = validate_plan(subtasks_in)
    /\ UNCHANGED subtasks_in
    /\ UNCHANGED <<circuitVars, configVars, now, pc, observerVars, envVars,
                   plannerVars, errorVars, planCacheVars, feedbackVars,
                   actorVars, fallbackVars, lockVars, localVars>>

InitValidate ==
    /\ CircuitNew
    /\ failure_threshold = DefaultFailureThreshold
    /\ reset_timeout_ms = 1
    /\ half_open_limit = 1
    /\ now = 0
    /\ pc = [c \in Callers |-> "idle"]
    /\ allow_result = None
    /\ consecutive_failures = 0
    /\ probes_admitted = 0
    /\ exec = [c \in Callers |-> ExecIdle]
    /\ PlannerIdle
    /\ ErrorsIdle /\ PlanCacheIdle /\ FeedbackIdle /\ ActorIdle /\ FallbackIdle
    /\ LocksIdle
    /\ LocalIdle
    /\ subtasks_in \in SubtaskLists
    /\ validated = "none"

NextValidate == ValidatePlan

SpecValidate == InitValidate /\ [][NextValidate]_vars

\* C29: validate_plan accepts a subtask list if and only if the list is
\* non-empty, its dependency relation has no cycle (a self-dependency and a
\* two-subtask loop included), and every dependency id names a subtask of
\* the list.
C29_ValidatePlanAcceptsWellFormed ==
    validated # "none" =>
        (validated = "Ok" <=> WellFormedPlan(subtasks_in))

C29_Witness ==
    /\ validated = "Generated plan has circular dependencies"
    /\ Len(subtasks_in) = 2
    /\ subtasks_in[1].dependencies = <<SubtaskId(2)>>
    /\ subtasks_in[2].dependencies = <<SubtaskId(1)>>

(***************************************************************************)
(* Callers of CircuitProtected::execute only (circuit.rs:191-213): every   *)
(* call remembers the state in which allow_request admitted it.            *)
(***************************************************************************)
\* execute up to the await of f(&self.inner), recording the state at admission
ExecuteAdmit(c) ==
    /\ pc[c] = "idle"
    /\ \E r \in AllowResults :
         /\ allow_request(r)
         /\ ObserveAllow(r)
         /\ IF r = "Ok"
            THEN /\ pc' = [pc EXCEPT ![c] = "running"]
                 /\ exec' = [exec EXCEPT ![c] =
                               [admitted |-> TRUE, invoked |-> 1,
                                successes |-> 0, failures |-> 0,
                                outcome |-> "pending",
                                admitted_in |-> state]]
            ELSE /\ pc' = pc
                 /\ exec' = [exec EXCEPT ![c] = ExecRejected]
    /\ UNCHANGED <<configVars, now, envVars, componentVars, plannerVars>>

\* time passes once the clock of the model has reached MaxTime: the instant
\* of the last failure recedes, so that time.elapsed() (circuit.rs:76) grows
TimePasses ==
    /\ now = MaxTime
    /\ last_failure # NoInstant
    /\ last_failure > 0
    /\ last_failure' = last_failure - 1
    /\ UNCHANGED <<state, failure_counter, half_open_counter>>
    /\ UNCHANGED <<configVars, now, pc, observerVars, envVars, componentVars, plannerVars>>

InitProbes == InitComponents

NextProbes ==
    \/ Tick
    \/ TimePasses
    \/ \E c \in Callers : ExecuteAdmit(c)
    \/ \E c \in Callers : \E ok \in BOOLEAN : ExecuteEnd(c, ok)

SpecProbes == InitProbes /\ [][NextProbes]_vars

\* time keeps advancing, requests keep arriving and every admitted request
\* reports its outcome
SpecProbesFair ==
    /\ SpecProbes
    /\ WF_vars(Tick \/ TimePasses)
    /\ WF_vars(\E c \in Callers : ExecuteAdmit(c))
    /\ \A c \in Callers : WF_vars(\E ok \in BOOLEAN : ExecuteEnd(c, ok))

\* C35: the circuit moves from HalfOpen to Closed only on the success of a
\* request that was admitted as a half-open probe (admitted while the circuit
\* was Open with the timeout elapsed, or HalfOpen), never on the late success
\* of a request admitted while the circuit was still Closed.
C35_OnlyProbeSuccessCloses ==
    [][\A c \in Callers :
         (/\ state = "HalfOpen" /\ state' = "Closed"
          /\ pc[c] = "running" /\ pc'[c] = "idle")
         => exec[c].admitted_in \in {"Open", "HalfOpen"}]_vars

\* a call of execute reports the failure of the downstream operation
DownstreamFails == \E c \in Callers : ExecuteEnd(c, FALSE)

\* C36: if requests keep arriving through execute, every admitted request
\* eventually reports its outcome, time keeps advancing (the fairness of
\* SpecProbesFair) and the downstream operation succeeds from some point on,
\* then a circuit that is Open or HalfOpen eventually returns to Closed.
C36_EventuallyClosedAgain ==
    (<>[][~DownstreamFails]_vars)
    => [](state \in {"Open", "HalfOpen"} => <>(state = "Closed"))

\* the circuit has tripped and is Closed again after a probe's success
C36_Witness ==
    /\ state = "Closed"
    /\ last_failure # NoInstant
    /\ failure_counter = 0
    /\ \E c \in Callers :
         /\ exec[c].outcome = "Ok"
         /\ exec[c].admitted_in \in {"Open", "HalfOpen"}

(***************************************************************************)
(* flush_pending_traces statement by statement (feedback.rs:197-258), with *)
(* the lock guards that are alive at each statement.  A guard bound by let *)
(* lives to the end of its block; a guard that is a temporary of a         *)
(* statement is dropped at the end of that statement.                      *)
(***************************************************************************)
FlushUnchanged ==
    UNCHANGED <<circuitVars, configVars, now, pc, observerVars, envVars,
                plannerVars, errorVars, planCacheVars, actorVars,
                fallbackVars, validateVars, localVars, feedbackConfigVars,
                submission_rx, resubmitVars, fb_obs,
                collector_dropped, processor_exited>>

\* the failed calls of submit_feedback made so far for trace
FailedAttempts(trace) ==
    IF trace \in DOMAIN attempts THEN attempts[trace] ELSE 0

\* match client.submit_feedback(&trace).await: the call on the network
FlushSubmitFeedback(ok) ==
    /\ flush_traces # <<>>
    /\ flush_pc = "loop"
    /\ io' = "network"
    /\ flush_pc' = IF ok THEN "ok" ELSE "err"
    /\ attempts' = IF ok THEN attempts
                   ELSE MapInsert(attempts, Head(flush_traces),
                                  FailedAttempts(Head(flush_traces)) + 1)
    /\ UNCHANGED <<held, pending, retry_counts, failed, feedback_dir, flush_traces>>
    /\ FlushUnchanged

\* Ok(_): retry_counts.write().await.remove(&trace_id), the guard being a
\* temporary of the statement; the turn ends
FlushRemoveCount ==
    /\ flush_pc = "ok"
    /\ retry_counts' = MapRemove(retry_counts, TraceId(Head(flush_traces)))
    /\ flush_traces' = Tail(flush_traces)
    /\ flush_pc' = "loop"
    /\ io' = "none"
    /\ UNCHANGED <<held, pending, failed, feedback_dir>>
    /\ UNCHANGED attempts
    /\ FlushUnchanged

\* Err(e): let mut retry_counts = retry_counts.write().await, and the count
\* of the trace_id is incremented
FlushCountFailure ==
    /\ flush_pc = "err"
    /\ LET trace_id == TraceId(Head(flush_traces))
           count == NextRetryCount(trace_id)
       IN  /\ retry_counts' = MapInsert(retry_counts, trace_id, count)
           /\ flush_pc' = IF ShouldRetry(count) THEN "retry" ELSE "exhausted"
    /\ held' = held \cup {"retry_counts"}
    /\ io' = "none"
    /\ UNCHANGED <<pending, failed, feedback_dir, flush_traces>>
    /\ UNCHANGED attempts
    /\ FlushUnchanged

\* pending.write().await.push(trace.clone()); the Err arm ends and the
\* retry_counts guard is dropped
FlushPushPending ==
    /\ flush_pc = "retry"
    /\ pending' = Append(pending, Head(flush_traces))
    /\ flush_traces' = Tail(flush_traces)
    /\ held' = held \ {"retry_counts"}
    /\ flush_pc' = "loop"
    /\ UNCHANGED <<io, retry_counts, failed, feedback_dir>>
    /\ UNCHANGED attempts
    /\ FlushUnchanged

\* failed.write().await.push(trace.clone()), the guard on failed being a
\* temporary of the statement
FlushPushFailed ==
    /\ flush_pc = "exhausted"
    /\ failed' = FailedAfterFlush(Head(flush_traces))
    /\ flush_pc' = "write"
    /\ UNCHANGED <<held, io, pending, retry_counts, feedback_dir, flush_traces>>
    /\ UNCHANGED attempts
    /\ FlushUnchanged

\* tokio::fs::write(&path, json).await
FlushWriteFile ==
    /\ flush_pc = "write"
    /\ LET trace == Head(flush_traces)
       IN  feedback_dir' = MapInsert(feedback_dir, FailedTraceFile(TraceId(trace)),
                                     ToJson(trace))
    /\ io' = "file"
    /\ flush_pc' = "written"
    /\ UNCHANGED <<held, pending, retry_counts, failed, flush_traces>>
    /\ UNCHANGED attempts
    /\ FlushUnchanged

\* the Err arm ends after the write: the retry_counts guard is dropped
FlushEndTurn ==
    /\ flush_pc = "written"
    /\ flush_traces' = Tail(flush_traces)
    /\ held' = held \ {"retry_counts"}
    /\ io' = "none"
    /\ flush_pc' = "loop"
    /\ UNCHANGED <<pending, retry_counts, failed, feedback_dir>>
    /\ UNCHANGED attempts
    /\ FlushUnchanged

InitFlush == InitFeedback

NextFlush ==
    \/ FbSubmit
    \/ FbRecv
    \/ FbTick
    \/ \E ok \in BOOLEAN : FlushSubmitFeedback(ok)
    \/ FlushRemoveCount
    \/ FlushCountFailure
    \/ FlushPushPending
    \/ FlushPushFailed
    \/ FlushWriteFile
    \/ FlushEndTurn

SpecFlush == InitFlush /\ [][NextFlush]_vars

\* C38: a trace is moved to the failed set only after that trace itself has
\* had max_retries failed submission attempts, even when other traces have
\* the same task_id-subtask_id key.
C38_FailedOnlyAfterOwnRetries ==
    \A i \in DOMAIN failed : FailedAttempts(failed[i]) >= max_retries

\* C33: the feedback collector never performs file or network I/O while
\* holding a lock on its pending list, retry-counter map or failed set; in
\* particular the failed-trace file is written with none of these locks held.
C33_NoIoUnderLock == io # "none" => held = {}

\* C34: if a caller drops its reply channel before the actor has finished
\* its request, the actor lets the remote call complete, fail or time out,
\* discards the result (the caller's reply is left as it was), and goes on to
\* serve the requests queued after it: the request of the caller that gave
\* up is eventually finished, and every caller still waiting is eventually
\* answered unless it gives up too.
C34_DroppedReplyChannel ==
    /\ [][\A c \in Callers :
            (apc[c] = "dropped" /\ apc'[c] # "dropped")
            => (/\ handling.caller = c
                /\ handling' = NoMessage
                /\ apc'[c] = "discarded"
                /\ reply'[c] = reply[c])]_vars
    /\ \A c \in Callers : (apc[c] = "dropped") ~> (apc[c] = "discarded")
    /\ \A c \in Callers :
         (apc[c] = "waiting") ~> (apc[c] \in {"replied", "dropped"})

\* the result for a caller that gave up has been discarded and the actor is
\* handling the request of another caller
C34_Witness ==
    \E c, d \in Callers :
        /\ c # d
        /\ apc[c] = "discarded"
        /\ reply[c].kind = "None"
        /\ handling = [caller |-> d]
        /\ apc[d] = "waiting"

(***************************************************************************)
(* The collector is dropped while its background task runs                 *)
(* (feedback.rs:66-102, 140-194).                                          *)
(***************************************************************************)
DropUnchanged ==
    UNCHANGED <<circuitVars, configVars, now, pc, observerVars, envVars,
                plannerVars, errorVars, planCacheVars, actorVars,
                fallbackVars, validateVars, localVars, feedbackVars, flush_pc, held, io,
                attempts>>

\* the FeedbackCollector is dropped: submission_tx, the only sender of the
\* channel, goes with it
FbDropCollector ==
    /\ ~collector_dropped
    /\ collector_dropped' = TRUE
    /\ UNCHANGED processor_exited
    /\ DropUnchanged

\* submission_rx.recv() yields None once the channel is closed and empty:
\* process_feedback_queue breaks out of its loop and returns
FbChannelClosed ==
    /\ ~processor_exited
    /\ flush_traces = <<>>
    /\ collector_dropped
    /\ submission_rx = <<>>
    /\ processor_exited' = TRUE
    /\ UNCHANGED collector_dropped
    /\ DropUnchanged

InitFeedbackDrop == InitFeedback

NextFeedbackDrop ==
    \/ FbSubmit
    \/ FbRecv
    \/ FbTick
    \/ \E ok \in BOOLEAN : FbFlushOne(ok)
    \/ FbDropCollector
    \/ FbChannelClosed

SpecFeedbackDrop == InitFeedbackDrop /\ [][NextFeedbackDrop]_vars

\* the runtime keeps running the background task: it receives what is in
\* the channel, its interval ticks, a flush goes through its traces, and it
\* sees the channel closed
SpecFeedbackDropFair ==
    /\ SpecFeedbackDrop
    /\ WF_vars(FbRecv)
    /\ WF_vars(FbTick)
    /\ WF_vars(\E ok \in BOOLEAN : FbFlushOne(ok))
    /\ WF_vars(FbChannelClosed)

\* some trace accepted by submit is neither accepted by the service nor in
\* the failed set yet
InFlight == submission_rx # <<>> \/ pending # <<>> \/ flush_traces # <<>>

\* C37: every trace accepted by submit in batched mode is eventually either
\* accepted by the remote service or placed in the failed set, the traces
\* still pending when the collector is dropped and its submission channel
\* closes included: the traces in the channel, in pending and in a running
\* flush eventually all leave, which they do only by one of the two ways.
C37_EveryTraceSettles == InFlight ~> ~InFlight

(***************************************************************************)
(* local_planning (planner.rs:342-375) on the objectives of at most        *)
(* MaxWords words of a vocabulary that reaches every combination of        *)
(* intents, and on several sets of context keys.                           *)
(***************************************************************************)
MaxWords == 3

LocalWords == {"X", "Scrape", "find", "Analyze", "parse", "Save", "store"}

LocalObjectives == UNION { [1..n -> LocalWords] : n \in 0..MaxWords }

LocalContexts == { {}, {"url"}, {"target_url", "note"} }

\* one call of local_planning
LocalPlanning ==
    /\ lp_result = NoLocalResult
    /\ lp_result' = local_planning(1, lp_objective, lp_context)
    /\ UNCHANGED <<lp_objective, lp_context>>
    /\ UNCHANGED <<circuitVars, configVars, now, pc, observerVars, envVars,
                   plannerVars, errorVars, planCacheVars, feedbackVars,
                   actorVars, fallbackVars, validateVars, lockVars>>

InitLocal ==
    /\ CircuitNew
    /\ failure_threshold = DefaultFailureThreshold
    /\ reset_timeout_ms = 1
    /\ half_open_limit = 1
    /\ now = 0
    /\ pc = [c \in Callers |-> "idle"]
    /\ allow_result = None
    /\ consecutive_failures = 0
    /\ probes_admitted = 0
    /\ exec = [c \in Callers |-> ExecIdle]
    /\ PlannerIdle
    /\ ErrorsIdle /\ PlanCacheIdle /\ FeedbackIdle
    /\ ActorIdle /\ FallbackIdle /\ ValidateIdle /\ LocksIdle
    /\ lp_objective \in LocalObjectives
    /\ lp_context \in LocalContexts
    /\ lp_result = NoLocalResult

NextLocal == LocalPlanning

SpecLocal == InitLocal /\ [][NextLocal]_vars

\* every dependency of subtasks[i] is the id of a subtask before it
DependsOnEarlier(subtasks, i) ==
    \A j \in 1..Len(subtasks[i].dependencies) :
        \E k \in 1..(i - 1) : subtasks[k].id = subtasks[i].dependencies[j]

\* C40: for every objective and every set of context keys, local_planning
\* produces between one and three subtasks whose dependencies all name
\* subtasks created earlier in the same plan, and validate_plan does not
\* reject the plan: local_planning returns Ok with these subtasks.
C40_LocalPlanWellFormed ==
    lp_result # NoLocalResult =>
        /\ lp_result.ok
        /\ lp_result.task.objective = lp_objective
        /\ LET subtasks == lp_result.task.subtasks
           IN  /\ Len(subtasks) \in 1..3
               /\ \A i \in 1..Len(subtasks) : DependsOnEarlier(subtasks, i)

\* a plan of three subtasks, the last depending on the two before it
C40_Witness ==
    /\ lp_result.ok
    /\ Len(lp_result.task.subtasks) = 3
    /\ Len(lp_result.task.subtasks[3].dependencies) = 2
    /\ Len(lp_result.task.subtasks[2].dependencies) = 1
    /\ lp_context # {}

====
